---- MODULE Spec2Model ----
(***************************************************************************)
(* A model of three subsystems of the channel-points miner:                *)
(*   - the Hermes WebSocket pool and its clients (PoolSpec),               *)
(*   - the event prediction manager: tracker + timer bettor (BetSpec),     *)
(*   - the GQL attempt strategy (GqlSpec).                                 *)
(* Each specification moves only its own variables.                        *)
(***************************************************************************)
EXTENDS Integers, Sequences, FiniteSets, TLC

(***************************************************************************)
(* Bounds of the model.                                                    *)
(***************************************************************************)
\* Number of distinct topics (a topic is identified by str(topic)).
NumTopics == 2
\* Number of HermesClient objects the pool may create in one run.
MaxClients == 3
\* max_subscriptions_per_client of the pool under check (50 by default).
MaxSubs == 1
\* Bound on the disturbances of one run: connections lost, clients found
\* stale, reconnect messages and authentication errors.
MaxFaults == 1
\* Number of distinct prediction events.
NumEvents == 2
\* Number of deliveries of `new` for one event in one run.
MaxNew == 2
\* Largest balance of channel points.
MaxPoints == 2
\* Largest number of attempts an AttemptStrategy is configured with.
MaxAttempts == 3
\* Largest number of entries in the errors array of a GQL response.
MaxMessages == 2
\* Largest number of points wagered on one prediction.
MaxBet == 2
\* Largest points_won of a Result.
MaxWon == 2
\* Number of prediction-result messages handled in one run.
MaxResults == 2
\* Largest balance of channel points in the computation of a bet amount.
MaxBalance == 50
\* Largest BetSettings.percentage.
MaxPercentage == 58
\* Largest top_points of the selected outcome.
MaxTop == 12
\* Number of streamers of the miner.
NumStreamers == 3
\* Largest length of the priority list.
MaxPriorities == 2
\* Largest balance of a streamer in the watch selection.
MaxWatchPoints == 1
\* Largest total_points_multiplier of a streamer.
MaxMultiplier == 1
\* Number of passes of each periodic loop in one run.
MaxPasses == 2
\* Largest amount a community goal still takes from the user.
MaxLeft == 2
\* Number of points-earned / points-spent messages in one run.
MaxBalanceMessages == 2
\* minutes_required of the drop, and the largest current_minutes_watched.
MaxMinutes == 10
\* Number of distinct drop instance ids.
MaxInstances == 2
\* Largest number of requests in one batch.
MaxBatch == 3
\* Largest timestamp of a notification.
MaxTimestamp == 2
\* Number of registered message listeners.
NumListeners == 2
\* Largest value of an outcome, of an event total and of a filter condition.
MaxValue == 1
\* Largest number of outcomes of an event.
MaxOutcomes == 2
\* Longest priority list of the selection order.
MaxOrder == 3
\* A max_subscriptions_per_client that leaves room in a client holding a topic.
MoreSubs == 2

Topics == 1..NumTopics
Clients == 1..MaxClients
\* Thread 0 is the health-check thread; thread c > 0 is the WebSocket thread
\* of client c (the thread started by HermesClient.open).
Health == 0
Threads == 0..MaxClients

VARIABLES
    \* ---- HermesWebSocketPool
    clients,        \* self.clients: the list of client ids managed by the pool
    force_close,    \* self.force_close
    nClients,       \* number of HermesClient objects constructed so far (ids 1..nClients)
    \* ---- HermesClient, one entry per object
    cstate,         \* client.state
    cindex,         \* client.index
    pending,        \* client.pending_topics
    subs,           \* topics of client.subscriptions, in insertion order
    origin,         \* 0: created by submit; c: created by __reconnect(c)
    sock,           \* underlying socket: "none" | "alive" | "dead"
    proto,          \* what the server owes the connection: "w" | "n" | "a" | "zok" | "zerr"
    ws,             \* position of the client's WebSocket thread
    \* ---- threads running __reconnect
    rpc,            \* position inside __reconnect: "none" | "lock" | "sleep" | "chk" | "start"
    rtarget,        \* the client passed to __reconnect
    rnew,           \* new_client of __reconnect
    endpc,          \* position of the thread calling end(): "no" | "flag" | "done"
    faults,         \* number of disturbances so far
    lastSubmit,     \* the topic of the submit call that has just returned, else 0
    \* ---- Streamer and its settings
    event_predictions, \* streamer.event_predictions: event id -> event, for the tracked ids
    channel_points, \* streamer.channel_points
    minimum_points, \* streamer.settings.bet.minimum_points: "None" or a number
    \* ---- the timers made by the timer factory, and the calls of place_bet
    timers,         \* per event: number of timers started and not fired yet
    scheduled,      \* per event: number of timers started so far
    eligible,       \* per event: a delivery of `new` met the conditions of a timer
    delivered,      \* per event: number of deliveries of `new`
    placed,         \* per event: number of calls of place_bet
    replaced,       \* per event: update replaced a record carrying a prediction
    \* ---- AttemptStrategy.make_attempts and GQL.__handle_result
    strategy_attempts, \* self.attempts of the AttemptStrategy
    gpc,            \* position: "idle" | "loop" | "success" | "error" | "returned" | "raised"
    attempts,       \* the local `attempts`
    errors,         \* the local `errors`
    calls,          \* number of calls of attempt()
    thrown,         \* the exceptions attempt() raised, in the order they occurred
    raised,         \* the errors carried by the RetryError raised
    reported,       \* result.attempts as __handle_result reads it, 0 before
    \* ---- EventPredictionTracker.result on one event of one streamer
    tracked,        \* event_id in streamer.event_predictions
    ev_prediction,  \* event.prediction: made (not None), points, result
    history,        \* the calls of streamer.update_history, in order
    results,        \* number of calls of result so far
    repeat,         \* the last step applied a result the prediction already had
    history_before, \* history before the last step
    \* ---- create_and_place_bet on one event: settings, balance, bet and call
    balance,        \* streamer.channel_points when the bet is created
    percentage,     \* settings.percentage
    max_points,     \* settings.max_points
    stealth_mode,   \* settings.stealth_mode
    top_points,     \* top_points of the outcome the strategy selects
    has_prediction, \* event.prediction is not None
    apc,            \* "start" | "done"
    bet,            \* amount of the Bet returned by create_bet, or NoBet
    place_bet,      \* amount of the Bet passed to place_bet, or NoBet
    \* ---- Twitch.send_minute_watched_events and Twitch.sync_campaigns
    streamers,      \* per streamer: online, channel_points, streak, drops, multiplier
    running,        \* self.running
    streamers_index,    \* the candidates of the current pass
    streamers_watching, \* the streamers selected in the current pass
    selected,       \* a selection has been made
    wpc,            \* watch loop: "top" | "for" | "stopped" | "dead"
    wpos,           \* position of the for loop in streamers_watching
    started,        \* streamers whose handshake was started in the current pass
    posted,         \* streamers that received a minute-watched POST in the current pass
    wpasses,        \* number of passes of the watch loop
    spc,            \* campaign sync loop: "top" | "stopped" | "dead"
    spasses,        \* number of passes of the campaign sync loop
    \* ---- one streamer written by two threads: on_message and
    \* ---- contribute_to_community_goals
    s_channel_points, \* streamer.channel_points
    start_points,   \* streamer.channel_points at the start
    goal_left,      \* min(goal.amount_left(), user_left_to_contribute)
    cpc,            \* contribution: "idle" | "request" | "load" | "store" | "done"
    c_amount,       \* the local `amount`
    loaded,         \* the value `-=` has read
    cres,           \* "none" | "skipped" | "failed" | "contributed"
    balances,       \* the balances on_message has assigned, in order
    \* ---- one Drop of a campaign
    has_preconditions_met,   \* "None" | "True" | "False"
    current_minutes_watched,
    drop_instance_id,        \* NoInstance or an id
    is_claimed,
    is_claimable,
    is_printable,
    percentage_progress,
    \* ---- GQL.post_gql_request_batch
    b_request,      \* number of requests in the batch
    bpc,            \* "idle" | "loop" | "returned" | "raised"
    b_attempts,     \* the local `attempts` of make_attempts
    b_errors,       \* the local `errors` of make_attempts
    b_received,     \* the last attempt received a JSON list
    b_response,     \* that list: the shape of each element
    b_result,       \* the indexes of the elements in the list returned
    \* ---- HermesWebSocketPool.on_notification
    last_message_timestamp,   \* of each client, NoTimestamp for None
    last_message_identifier,  \* of each client, "None" for None
    n_message,      \* the Message of the last notification, NoMessage before
    n_found,        \* self.topic(...) found the topic of that notification
    n_calls,        \* on_message calls each listener got for that notification
    pool_forwarded, \* the Message the pool forwarded last
    pool_before,    \* pool_forwarded when the last notification arrived
    \* ---- skip(streamer, event_id, bet)
    sk_event,       \* total_users and total_points of the event
    sk_outcome,     \* the values of the outcome bet.outcome_id
    sk_filter,      \* settings.filter_condition, NoFilter for None
    sk_done,        \* skip has returned
    sk_result,      \* what it returned: the skip bool and the compared value
    \* ---- one EventPrediction object
    ep_made,         \* __init__ has run
    ep_outcomes,     \* self.outcomes: total_points and total_users of each
    ep_total_points, \* self.total_points
    ep_total_users,  \* self.total_users
    \* ---- the priority argument of send_minute_watched_events
    priority,       \* the list given to the last selection, << >> before it
    \* The two loops of the Twitch class, step by step
    loop_at,                \* loop -> where its thread is
    loop_chunks,            \* loop -> chunks left of the sleep it is in
    loop_left,              \* iterations left of `for index in streamers_watching`
    loop_slept,             \* the watch loop called __chuncked_sleep in this pass
    \* ---- HermesWebSocketPool, set by the constructor
    max_subscriptions_per_client,   \* self.max_subscriptions_per_client
    \* ---- one HermesClient: subscribe() racing with on_authenticate()
    r_state,        \* client.state
    r_pending,      \* client.pending_topics
    r_subscriptions, \* topics of client.subscriptions, in insertion order
    r_lock,         \* holder of client.pending_topics_lock: "none" | "subscribe" | "flush"
    r_topic,        \* the topic handed to subscribe
    r_spc,          \* position of the thread in subscribe
    r_wpc,          \* position of the WebSocket thread in on_authenticate
    r_path,         \* what subscribe did with the topic: "none" | "now" | "queued"
    r_failed,       \* a send found the socket closed
    \* the locks of the pool and of its clients, and the threads that take them
    lk_holder,      \* lock -> the thread that holds it, 0 when free
    lk_prog,        \* thread -> the lock operations of the call it is running
    lk_pc           \* thread -> the next operation of lk_prog to run

poolVars == <<clients, force_close, nClients, cstate, cindex, pending, subs, origin,
              sock, proto, ws, rpc, rtarget, rnew, endpc, faults, lastSubmit>>

betVars == <<event_predictions, channel_points, minimum_points, timers, scheduled,
             eligible, delivered, placed, replaced>>

gqlVars == <<strategy_attempts, gpc, attempts, errors, calls, thrown, raised,
             reported>>

resVars == <<tracked, ev_prediction, history, results, repeat, history_before>>

amtVars == <<balance, percentage, max_points, stealth_mode, top_points,
             has_prediction, apc, bet, place_bet>>

watchVars == <<streamers, running, streamers_index, streamers_watching, selected,
               wpc, wpos, started, posted, wpasses, spc, spasses>>

concVars == <<s_channel_points, start_points, goal_left, cpc, c_amount, loaded,
              cres, balances>>

dropVars == <<has_preconditions_met, current_minutes_watched, drop_instance_id,
              is_claimed, is_claimable, is_printable, percentage_progress>>

batchVars == <<b_request, bpc, b_attempts, b_errors, b_received, b_response,
               b_result>>

notifVars == <<last_message_timestamp, last_message_identifier, n_message,
               n_found, n_calls, pool_forwarded, pool_before>>

skipVars == <<sk_event, sk_outcome, sk_filter, sk_done, sk_result>>

eventVars == <<ep_made, ep_outcomes, ep_total_points, ep_total_users>>

orderVars == <<priority>>

exitVars == <<loop_at, loop_chunks, loop_left, loop_slept>>

limitVars == <<max_subscriptions_per_client>>

raceVars == <<r_state, r_pending, r_subscriptions, r_lock, r_topic, r_spc,
              r_wpc, r_path, r_failed>>

lockVars == <<lk_holder, lk_prog, lk_pc>>

vars == <<poolVars, betVars, gqlVars, resVars, amtVars, watchVars, concVars,
          dropVars, batchVars, notifVars, skipVars, eventVars, orderVars,
          exitVars, limitVars, raceVars, lockVars>>

Born == 1..nClients

\* Elements of a sequence.
Range(s) == {s[i] : i \in DOMAIN s}

\* list(reversed(s))
Reverse(s) == [i \in 1..Len(s) |-> s[Len(s) + 1 - i]]

(***************************************************************************)
(* HermesClient                                                            *)
(***************************************************************************)
\* A hand-over of the topics still pending only.
pending_topics_only(c) == pending[c]
\* HermesClient.all_topics: subscribed topics followed by the pending ones.
all_topics(c) == subs[c] \o pending[c]

\* HermesClient.subscribed
subscribed(c, t) == t \in Range(all_topics(c))

\* WebSocketApp.send: raises WebSocketConnectionClosedException unless the
\* socket is connected.
SendOk(c) == sock[c] = "alive"

\* Clients of cs that a close() by another thread may miss: the thread has
\* started but has no socket yet, and the connection attempt goes on.
MissEligible(cs) ==
    {c \in cs : cstate[c] # "Closed" /\ ws[c] = "connecting" /\ sock[c] = "none"}

\* Clients of cs whose thread may have read the next message of the server
\* when another thread closes them: its callback then runs after the close.
LateEligible(cs) ==
    {c \in cs : cstate[c] # "Closed" /\ ws[c] = "up" /\ sock[c] = "alive"
                /\ proto[c] \in {"w", "a"}}

\* A close() that leaves the state as it is.
StateUnchangedByClose(cs) == cstate

\* HermesClient.close applied to every client of cs by a thread that is not
\* the WebSocket thread of any client of `late`: the state (lines 150-151).
StateAfterClose(cs) ==
    [c \in Clients |-> IF c \in cs THEN "Closed" ELSE cstate[c]]

\* ... and the socket (line 154, WebSocketApp.close).
SockAfterClose(cs, miss) ==
    [c \in Clients |->
        IF c \in cs /\ cstate[c] # "Closed" /\ c \notin miss
           /\ (sock[c] = "alive" \/ (ws[c] = "connecting" /\ sock[c] = "none"))
        THEN "dead" ELSE sock[c]]

\* The callback the thread of a client of `late` is about to run.
WsAfterClose(w, late) ==
    [c \in Clients |->
        IF c \in late THEN (IF proto[c] = "w" THEN "h_welcome" ELSE "h_authok")
        ELSE w[c]]

ProtoAfterClose(late) ==
    [c \in Clients |->
        IF c \in late THEN (IF proto[c] = "w" THEN "n" ELSE "zok") ELSE proto[c]]

(***************************************************************************)
(* HermesWebSocketPool                                                     *)
(***************************************************************************)
PoolInit ==
    /\ clients = <<>>
    /\ force_close = FALSE
    /\ nClients = 0
    /\ cstate = [c \in Clients |-> "Unopened"]
    /\ cindex = [c \in Clients |-> 0]
    /\ pending = [c \in Clients |-> <<>>]
    /\ subs = [c \in Clients |-> <<>>]
    /\ origin = [c \in Clients |-> 0]
    /\ sock = [c \in Clients |-> "none"]
    /\ proto = [c \in Clients |-> "w"]
    /\ ws = [c \in Clients |-> "idle"]
    /\ rpc = [th \in Threads |-> "none"]
    /\ rtarget = [th \in Threads |-> 0]
    /\ rnew = [th \in Threads |-> 0]
    /\ endpc = "no"
    /\ faults = 0
    /\ lastSubmit = 0

\* __subscribed: any client of the list, whatever its state.
SubscribedAnyState(t) == \E i \in DOMAIN clients : subscribed(clients[i], t)

\* A membership test that looks at the Open clients only.
SubscribedOpenOnly(t) ==
    \E i \in DOMAIN clients :
        cstate[clients[i]] = "Open" /\ subscribed(clients[i], t)

Subscribed(t) == SubscribedAnyState(t)

\* A test of room that lets a full client take one more topic.
AvailableOffByOne(c) ==
    cstate[c] # "Closed" /\ Len(all_topics(c)) <= max_subscriptions_per_client

\* The condition of the generator in __next_available_client.
Available(c) ==
    cstate[c] # "Closed" /\ Len(all_topics(c)) < max_subscriptions_per_client

\* The position __create_new_client gives a client appended to the list
\* (positions are counted from 1 here, from 0 in the source).
AppendIndex == Len(clients) + 1

\* submit, the whole critical section: __subscribed, __next_available_client
\* (with __create_new_client and open for a new client) and subscribe.
Submit(t) ==
    /\ UNCHANGED faults
    /\ lastSubmit' = t
    /\ UNCHANGED <<force_close, proto, rpc, rtarget, rnew, endpc>>
    /\ IF Subscribed(t)
       THEN UNCHANGED <<clients, nClients, cstate, cindex, pending, subs, origin, sock, ws>>
       ELSE IF \E i \in DOMAIN clients : Available(clients[i])
       THEN LET i == CHOOSE k \in DOMAIN clients :
                       /\ Available(clients[k])
                       /\ \A j \in DOMAIN clients : Available(clients[j]) => k <= j
                c == clients[i]
            IN  /\ UNCHANGED <<clients, nClients, cindex, origin, sock, ws>>
                /\ IF cstate[c] = "Open"
                   THEN \* subscribe_now -> send_request -> __send_request
                        IF SendOk(c)
                        THEN /\ subs' = [subs EXCEPT ![c] = Append(@, t)]
                             /\ UNCHANGED <<cstate, pending>>
                        ELSE /\ cstate' = [cstate EXCEPT ![c] = "Closed"]
                             /\ UNCHANGED <<subs, pending>>
                   ELSE /\ pending' = [pending EXCEPT ![c] = Append(@, t)]
                        /\ UNCHANGED <<cstate, subs>>
       ELSE LET n == nClients + 1 IN
            /\ nClients < MaxClients
            /\ nClients' = n
            /\ clients' = Append(clients, n)
            /\ cindex' = [cindex EXCEPT ![n] = AppendIndex]
            /\ origin' = [origin EXCEPT ![n] = 0]
            \* open(): state is UNOPENED and thread_ws is None, the thread starts
            /\ ws' = [ws EXCEPT ![n] = "connecting"]
            \* subscribe(): the state is not OPEN, the topic is queued
            /\ pending' = [pending EXCEPT ![n] = <<t>>]
            /\ UNCHANGED <<cstate, subs, sock>>

\* Where a thread goes on when __reconnect returns: the health thread to
\* its loop, a WebSocket thread to run_forever (after on_reconnect), to
\* on_close (after on_error) or to its end (after on_close).
WsRet(w, th) ==
    IF th = Health THEN w
    ELSE [w EXCEPT ![th] = CASE w[th] = "rc_m" -> "up"
                             [] w[th] = "rc_e" -> "closing"
                             [] OTHER -> "done"]

\* __reconnect returns: its locals are gone.
Return(th) ==
    /\ rpc' = [rpc EXCEPT ![th] = "none"]
    /\ rtarget' = [rtarget EXCEPT ![th] = 0]
    /\ rnew' = [rnew EXCEPT ![th] = 0]

\* An id test that never finds the client replaced.
IdMatchesAlways(c) == TRUE

\* An id test that always finds the client replaced.
IdMatchesNever(c) == FALSE
\* The id test of __reconnect: the client is still the one at its index.
IdMatches(c) == clients[cindex[c]] = c

\* __reconnect, the critical section (lines 136-149).
ReconnectLocked(th) ==
    /\ UNCHANGED faults
    /\ lastSubmit' = 0
    /\ rpc[th] = "lock"
    /\ LET c == rtarget[th] IN
       \E miss \in SUBSET MissEligible({c}), late \in SUBSET LateEligible({c}) :
       /\ UNCHANGED <<force_close, endpc, subs>>
       /\ cstate' = StateAfterClose({c})
       /\ sock' = SockAfterClose({c}, miss)
       /\ proto' = ProtoAfterClose(late)
       /\ IF force_close \/ ~IdMatches(c)
          THEN /\ Return(th)
               /\ ws' = WsRet(WsAfterClose(ws, late), th)
               /\ UNCHANGED <<clients, nClients, cindex, pending, origin>>
          ELSE LET n == nClients + 1 IN
               /\ nClients < MaxClients
               /\ nClients' = n
               /\ clients' = [clients EXCEPT ![cindex[c]] = n]
               /\ cindex' = [cindex EXCEPT ![n] = cindex[c]]
               /\ origin' = [origin EXCEPT ![n] = c]
               /\ pending' = [pending EXCEPT ![n] = all_topics(c)]
               /\ rnew' = [rnew EXCEPT ![th] = n]
               /\ rpc' = [rpc EXCEPT ![th] = "sleep"]
               /\ ws' = WsAfterClose(ws, late)
               /\ UNCHANGED rtarget

\* __reconnect after the sleep and the wait for the Internet connection
\* (lines 152-157): the test of force_close.
ReconnectWake(th) ==
    /\ UNCHANGED faults
    /\ lastSubmit' = 0
    /\ rpc[th] = "sleep"
    /\ IF force_close
       THEN /\ Return(th)
            /\ ws' = WsRet(ws, th)
       ELSE /\ rpc' = [rpc EXCEPT ![th] = "chk"]
            /\ UNCHANGED <<ws, rtarget, rnew>>
    /\ UNCHANGED <<clients, force_close, nClients, cstate, cindex, pending, subs,
                   origin, sock, proto, endpc>>

\* The tests of HermesClient.open (lines 124-125).
CanOpen(n) == cstate[n] = "Unopened" /\ ws[n] = "idle"

\* new_client.open(): the tests of the state and of thread_ws.
ReconnectOpenTest(th) ==
    /\ UNCHANGED faults
    /\ lastSubmit' = 0
    /\ rpc[th] = "chk"
    /\ IF CanOpen(rnew[th])
       THEN /\ rpc' = [rpc EXCEPT ![th] = "start"]
            /\ UNCHANGED <<ws, rtarget, rnew>>
       ELSE /\ Return(th)
            /\ ws' = WsRet(ws, th)
    /\ UNCHANGED <<clients, force_close, nClients, cstate, cindex, pending, subs,
                   origin, sock, proto, endpc>>

\* new_client.open(): thread_ws.start() (line 140).
ReconnectStart(th) ==
    /\ UNCHANGED faults
    /\ lastSubmit' = 0
    /\ rpc[th] = "start"
    /\ Return(th)
    /\ ws' = WsRet([ws EXCEPT ![rnew[th]] = "connecting"], th)
    /\ UNCHANGED <<clients, force_close, nClients, cstate, cindex, pending, subs,
                   origin, sock, proto, endpc>>

\* check_stale_connections: a client of the list found stale.  A Closed
\* client is always stale; any other one is when its timeout has passed.
HealthCheck(i) ==
    /\ faults < MaxFaults
    /\ faults' = faults + 1
    /\ lastSubmit' = 0
    /\ rpc[Health] = "none"
    /\ i \in DOMAIN clients
    /\ rpc' = [rpc EXCEPT ![Health] = "lock"]
    /\ rtarget' = [rtarget EXCEPT ![Health] = clients[i]]
    /\ UNCHANGED <<clients, force_close, nClients, cstate, cindex, pending, subs,
                   origin, sock, proto, ws, rnew, endpc>>

\* end(): force_close is set before the lock is taken (line 255).
EndFlag ==
    /\ UNCHANGED faults
    /\ lastSubmit' = 0
    /\ endpc = "no"
    /\ force_close' = TRUE
    /\ endpc' = "flag"
    /\ UNCHANGED <<clients, nClients, cstate, cindex, pending, subs, origin,
                   sock, proto, ws, rpc, rtarget, rnew>>

\* end(): the critical section, every client closed and the list cleared.
EndClose ==
    /\ UNCHANGED faults
    /\ lastSubmit' = 0
    /\ endpc = "flag"
    /\ \E miss \in SUBSET MissEligible(Range(clients)),
          late \in SUBSET LateEligible(Range(clients)) :
          /\ cstate' = StateAfterClose(Range(clients))
          /\ sock' = SockAfterClose(Range(clients), miss)
          /\ proto' = ProtoAfterClose(late)
          /\ ws' = WsAfterClose(ws, late)
    /\ clients' = <<>>
    /\ endpc' = "done"
    /\ UNCHANGED <<force_close, nClients, cindex, pending, subs, origin,
                   rpc, rtarget, rnew>>

(***************************************************************************)
(* The WebSocket thread of a client: run_forever and the callbacks.  A     *)
(* callback runs in one step, unless another thread closed the client      *)
(* after the message was read (positions "h_..."): only a close() takes    *)
(* effect differently before and after a callback.                         *)
(***************************************************************************)
\* State after HermesClient.on_open (line 331).
StateOnOpen(s) == "Unwelcomed"

\* The connection is established and HermesClient.on_open runs.
Connect(c) ==
    /\ UNCHANGED faults
    /\ lastSubmit' = 0
    /\ ws[c] = "connecting"
    /\ sock[c] = "none"
    /\ sock' = [sock EXCEPT ![c] = "alive"]
    /\ proto' = [proto EXCEPT ![c] = "w"]
    /\ cstate' = [cstate EXCEPT ![c] = StateOnOpen(@)]
    /\ ws' = [ws EXCEPT ![c] = "up"]
    /\ UNCHANGED <<clients, force_close, nClients, cindex, pending, subs,
                   origin, rpc, rtarget, rnew, endpc>>

\* The connection attempt fails or the connection is lost.
Drop(c) ==
    /\ faults < MaxFaults
    /\ faults' = faults + 1
    /\ lastSubmit' = 0
    /\ \/ ws[c] = "connecting" /\ sock[c] = "none"
       \/ ws[c] = "up" /\ sock[c] = "alive"
    /\ sock' = [sock EXCEPT ![c] = "dead"]
    /\ UNCHANGED <<clients, force_close, nClients, cstate, cindex, pending, subs,
                   origin, proto, ws, rpc, rtarget, rnew, endpc>>

\* State after Pool.on_welcome set it (line 168).
StateOnWelcome(s) == "Unauthenticated"

\* State after Pool.on_authenticate without error set it (line 182).
StateOnAuthOk(s) == "Open"

\* The welcome is received.  on_welcome: the state is set, then
\* authenticate() sends the request.
OnWelcome(c) ==
    /\ UNCHANGED faults
    /\ lastSubmit' = 0
    /\ ws[c] = "up"
    /\ sock[c] = "alive"
    /\ proto[c] = "w"
    /\ cstate' = [cstate EXCEPT ![c] = StateOnWelcome(@)]
    /\ proto' = [proto EXCEPT ![c] = "a"]
    /\ UNCHANGED <<clients, force_close, nClients, cindex, pending, subs,
                   origin, sock, ws, rpc, rtarget, rnew, endpc>>

\* on_welcome running after a close() of another thread: the state is set
\* (line 168) ...
OnWelcomeLate(c) ==
    /\ UNCHANGED faults
    /\ lastSubmit' = 0
    /\ ws[c] = "h_welcome"
    /\ cstate' = [cstate EXCEPT ![c] = StateOnWelcome(@)]
    /\ ws' = [ws EXCEPT ![c] = "h_send"]
    /\ UNCHANGED <<clients, force_close, nClients, cindex, pending, subs,
                   origin, sock, proto, rpc, rtarget, rnew, endpc>>

\* ... and authenticate() fails to send: __send_request sets the state to
\* CLOSED (line 173).
AuthenticateLate(c) ==
    /\ UNCHANGED faults
    /\ lastSubmit' = 0
    /\ ws[c] = "h_send"
    /\ cstate' = [cstate EXCEPT ![c] = "Closed"]
    /\ ws' = [ws EXCEPT ![c] = "up"]
    /\ UNCHANGED <<clients, force_close, nClients, cindex, pending, subs,
                   origin, sock, proto, rpc, rtarget, rnew, endpc>>

\* subscribe_pending on client c whose state is OPEN: every pending topic is
\* popped (from the end of the list) and sent.  A send on a closed socket sets
\* the state to CLOSED and the topic is kept nowhere; the topics popped after
\* it are not sent either (send_request returns False for a CLOSED client).
SubscribePending(c) ==
    /\ IF pending[c] = <<>>
       THEN /\ cstate' = [cstate EXCEPT ![c] = StateOnAuthOk(@)]
            /\ UNCHANGED subs
       ELSE IF SendOk(c)
       THEN /\ cstate' = [cstate EXCEPT ![c] = StateOnAuthOk(@)]
            /\ subs' = [subs EXCEPT ![c] = @ \o Reverse(pending[c])]
       ELSE /\ cstate' = [cstate EXCEPT ![c] = "Closed"]
            /\ UNCHANGED subs
    /\ pending' = [pending EXCEPT ![c] = <<>>]

\* An authenticate response without error is received.  on_authenticate:
\* the state is OPEN, then subscribe_pending().
OnAuthenticateOk(c) ==
    /\ UNCHANGED faults
    /\ lastSubmit' = 0
    /\ ws[c] = "up"
    /\ sock[c] = "alive"
    /\ proto[c] = "a"
    /\ SubscribePending(c)
    /\ proto' = [proto EXCEPT ![c] = "zok"]
    /\ UNCHANGED <<clients, force_close, nClients, cindex,
                   origin, sock, ws, rpc, rtarget, rnew, endpc>>

\* on_authenticate (without error) running after a close() of another thread.
OnAuthenticateOkLate(c) ==
    /\ UNCHANGED faults
    /\ lastSubmit' = 0
    /\ ws[c] = "h_authok"
    /\ SubscribePending(c)
    /\ ws' = [ws EXCEPT ![c] = "up"]
    /\ UNCHANGED <<clients, force_close, nClients, cindex,
                   origin, sock, proto, rpc, rtarget, rnew, endpc>>

\* An authenticate response with an error is received.  on_authenticate:
\* client.close().
OnAuthenticateErr(c) ==
    /\ faults < MaxFaults
    /\ faults' = faults + 1
    /\ lastSubmit' = 0
    /\ ws[c] = "up"
    /\ sock[c] = "alive"
    /\ proto[c] = "a"
    /\ cstate' = StateAfterClose({c})
    /\ sock' = SockAfterClose({c}, {})
    /\ proto' = [proto EXCEPT ![c] = "zerr"]
    /\ UNCHANGED <<clients, force_close, nClients, cindex, pending, subs,
                   origin, ws, rpc, rtarget, rnew, endpc>>

\* The server asks for a reconnect: Pool.on_reconnect enters
\* __reconnect(client), which changes nothing before it holds the lock.
OnReconnect(c) ==
    /\ faults < MaxFaults
    /\ faults' = faults + 1
    /\ lastSubmit' = 0
    /\ ws[c] = "up"
    /\ sock[c] = "alive"
    /\ ws' = [ws EXCEPT ![c] = "rc_m"]
    /\ rpc' = [rpc EXCEPT ![c] = "lock"]
    /\ rtarget' = [rtarget EXCEPT ![c] = c]
    /\ UNCHANGED <<clients, force_close, nClients, cstate, cindex, pending, subs,
                   origin, sock, proto, rnew, endpc>>

\* run_forever finds the socket closed and reports it through on_error
\* first (a WebSocketConnectionClosedException): Pool.on_error enters
\* __reconnect; on_close follows when it returns.
OnError(c) ==
    /\ UNCHANGED faults
    /\ lastSubmit' = 0
    /\ ws[c] \in {"up", "connecting"}
    /\ sock[c] = "dead"
    /\ ws' = [ws EXCEPT ![c] = "rc_e"]
    /\ rpc' = [rpc EXCEPT ![c] = "lock"]
    /\ rtarget' = [rtarget EXCEPT ![c] = c]
    /\ UNCHANGED <<clients, force_close, nClients, cstate, cindex, pending, subs,
                   origin, sock, proto, rnew, endpc>>

\* run_forever ends with the socket closed.  HermesClient.on_close: the state
\* is CLOSED, then Pool.on_close enters __reconnect.
OnClose(c) ==
    /\ UNCHANGED faults
    /\ lastSubmit' = 0
    /\ \/ ws[c] = "closing"
       \/ ws[c] \in {"up", "connecting"} /\ sock[c] = "dead"
    /\ cstate' = [cstate EXCEPT ![c] = "Closed"]
    /\ ws' = [ws EXCEPT ![c] = "rc_c"]
    /\ rpc' = [rpc EXCEPT ![c] = "lock"]
    /\ rtarget' = [rtarget EXCEPT ![c] = c]
    /\ UNCHANGED <<clients, force_close, nClients, cindex, pending, subs,
                   origin, sock, proto, rnew, endpc>>

(***************************************************************************)
(* The event prediction manager made by EventPredictionManagerFactory:     *)
(* an EventPredictionTracker followed by a TimerEventPredictionBettor.     *)
(***************************************************************************)
EventIds == 1..NumEvents
\* Values of seconds_until_place_bet, the result of
\* streamer.get_time_until_place_bet(event, current_timestamp).
Seconds == -1..1
\* Payloads of an event (title, outcomes, status).
Payloads == 0..1

\* BetSettings.minimum_points when it is None.
NoMinimum == -1

BetInit ==
    /\ event_predictions = << >>
    /\ channel_points \in 0..MaxPoints
    /\ minimum_points \in {NoMinimum} \cup (0..MaxPoints)
    /\ timers = [e \in EventIds |-> 0]
    /\ scheduled = [e \in EventIds |-> 0]
    /\ eligible = [e \in EventIds |-> FALSE]
    /\ delivered = [e \in EventIds |-> 0]
    /\ placed = [e \in EventIds |-> 0]
    /\ replaced = [e \in EventIds |-> FALSE]

\* event_id in streamer.event_predictions
Tracked(e) == e \in DOMAIN event_predictions

\* EventPredictionTracker.new: the event is added unless its id is known.
TrackerNew(ep, e, data) ==
    IF e \in DOMAIN ep THEN ep
    ELSE [x \in DOMAIN ep \cup {e} |->
            IF x = e THEN [data |-> data, prediction |-> FALSE] ELSE ep[x]]

\* The test of the balance in TimerEventPredictionBettor.new.
EnoughPoints == minimum_points = NoMinimum \/ channel_points > minimum_points

\* The tests that TimerEventPredictionBettor.new makes before it starts a
\* timer, on the predictions ep left by the tracker.
StartsTimer(ep, e, seconds) == e \in DOMAIN ep /\ seconds > 0 /\ EnoughPoints

\* EventPredictionManager.new: the tracker, then the bettor.
New(e, data, seconds) ==
    /\ delivered[e] < MaxNew
    /\ delivered' = [delivered EXCEPT ![e] = @ + 1]
    /\ event_predictions' = TrackerNew(event_predictions, e, data)
    /\ IF StartsTimer(event_predictions', e, seconds)
       THEN /\ timers' = [timers EXCEPT ![e] = @ + 1]
            /\ scheduled' = [scheduled EXCEPT ![e] = @ + 1]
       ELSE UNCHANGED <<timers, scheduled>>
    /\ eligible' = [eligible EXCEPT ![e] = @ \/ (seconds > 0 /\ EnoughPoints)]
    /\ UNCHANGED <<channel_points, minimum_points, placed, replaced>>

\* An update that stores the new event as it came, without a prediction.
UpdateAsReceived(e, data) ==
    /\ Tracked(e)
    /\ event_predictions' =
          [event_predictions EXCEPT ![e] = [data |-> data, prediction |-> FALSE]]
    /\ replaced' = [replaced EXCEPT ![e] = @ \/ event_predictions[e].prediction]
    /\ UNCHANGED <<channel_points, minimum_points, timers, scheduled, eligible,
                   delivered, placed>>

\* EventPredictionManager.update: the tracker replaces the event and keeps
\* its prediction; the bettor does nothing.
Update(e, data) ==
    /\ Tracked(e)
    /\ event_predictions' =
          [event_predictions EXCEPT ![e] =
              [data |-> data, prediction |-> event_predictions[e].prediction]]
    /\ replaced' = [replaced EXCEPT ![e] = @ \/ event_predictions[e].prediction]
    /\ UNCHANGED <<channel_points, minimum_points, timers, scheduled, eligible,
                   delivered, placed>>

\* EventPredictionManager.prediction_updated: the tracker stores the
\* prediction; the bettor does nothing.  Twitch sends it once for each bet
\* placed, by place_bet or by the user.
PredictionUpdated(e) ==
    /\ Tracked(e)
    /\ event_predictions' = [event_predictions EXCEPT ![e].prediction = TRUE]
    /\ UNCHANGED <<channel_points, minimum_points, timers, scheduled, eligible,
                   delivered, placed, replaced>>

\* create_bet returns a Bet: the event has no prediction and the strategy
\* finds an outcome.
CreatesBet(e, found) == ~event_predictions[e].prediction /\ found

\* A timer fires: create_and_place_bet.
TimerFires(e, found, should_skip) ==
    /\ timers[e] > 0
    /\ timers' = [timers EXCEPT ![e] = @ - 1]
    /\ IF CreatesBet(e, found) /\ ~should_skip
       THEN placed' = [placed EXCEPT ![e] = @ + 1]
       ELSE UNCHANGED placed
    /\ UNCHANGED <<event_predictions, channel_points, minimum_points, scheduled,
                   eligible, delivered, replaced>>

\* The balance of the streamer changes (points earned or spent).
PointsChange(p) ==
    /\ p # channel_points
    /\ channel_points' = p
    /\ UNCHANGED <<event_predictions, minimum_points, timers, scheduled, eligible,
                   delivered, placed, replaced>>

(***************************************************************************)
(* GQL: AttemptStrategy.make_attempts with is_recoverable_error, and       *)
(* __handle_result.                                                        *)
(***************************************************************************)
\* The messages of the entries of an errors array.
ErrorMessages == {"service timeout", "other"}

\* error_parser: the Error made of one entry of the errors array.
error_parser(message) ==
    [recoverable |-> message \in {"service timeout"}, message |-> message]

\* The errors arrays of a response that has one.
ErrorArrays ==
    UNION {[1..n -> {error_parser(m) : m \in ErrorMessages}] : n \in 1..MaxMessages}

\* What attempt() raises: a requests RequestException (transport, HTTP
\* status), an InvalidJsonShapeException, or the GQLResponseErrors that
\* parse_base_response raises for a response with an errors array.
Exceptions ==
    {[kind |-> "RequestException", errors |-> <<>>],
     [kind |-> "InvalidJsonShapeException", errors |-> <<>>]}
    \cup {[kind |-> "GQLResponseErrors", errors |-> a] : a \in ErrorArrays}

\* bool(error) of an Error object: the class defines neither __bool__ nor
\* __len__.
Truthy(error) == TRUE

\* GQLResponseErrors.recoverable:
\* all(error for error in self.errors if error.recoverable)
recoverable(errs) ==
    \A i \in {j \in DOMAIN errs : errs[j].recoverable} : Truthy(errs[i])

\* An exception test that lets every attempt be retried.
RetryAlways(e) == TRUE

is_recoverable_error(e) ==
    IF e.kind = "RequestException" THEN TRUE
    ELSE IF e.kind = "GQLResponseErrors" THEN recoverable(e.errors)
    ELSE FALSE

\* SuccessResult.attempts read as ErrorResult.attempts is.
AttemptsOfErrors(errs) == Len(errs)

\* SuccessResult.attempts: len(self.errors) + 1
SuccessAttempts(errs) == Len(errs) + 1

\* An errors list that keeps the last error only.
KeepLast(errs, e) == <<e>>

\* errors.append(e)
AppendError(errs, e) == Append(errs, e)

GqlInit ==
    /\ strategy_attempts \in 0..MaxAttempts
    /\ gpc = "idle"
    /\ attempts = 0
    /\ errors = <<>>
    /\ calls = 0
    /\ thrown = <<>>
    /\ raised = <<>>
    /\ reported = 0

\* post_gql_request_single calls make_attempts: the locals are set.
MakeAttempts ==
    /\ gpc = "idle"
    /\ gpc' = "loop"
    /\ attempts' = 0
    /\ errors' = <<>>
    /\ UNCHANGED <<strategy_attempts, calls, thrown, raised, reported>>

\* The test of the while loop fails: ErrorResult(errors).
LoopExit ==
    /\ gpc = "loop"
    /\ ~(attempts < strategy_attempts)
    /\ gpc' = "error"
    /\ UNCHANGED <<strategy_attempts, attempts, errors, calls, thrown, raised,
                   reported>>

\* One turn of the loop in which attempt() and validate() succeed.
AttemptSucceeds ==
    /\ gpc = "loop"
    /\ attempts < strategy_attempts
    /\ attempts' = attempts + 1
    /\ calls' = calls + 1
    /\ gpc' = "success"
    /\ UNCHANGED <<strategy_attempts, errors, thrown, raised, reported>>

\* One turn of the loop in which attempt() raises e.
AttemptFails(e) ==
    /\ gpc = "loop"
    /\ attempts < strategy_attempts
    /\ attempts' = attempts + 1
    /\ calls' = calls + 1
    /\ errors' = AppendError(errors, e)
    /\ thrown' = Append(thrown, e)
    /\ gpc' = IF ~is_recoverable_error(e) THEN "error"
              ELSE IF attempts' >= strategy_attempts THEN "error"
              ELSE "loop"
    /\ UNCHANGED <<strategy_attempts, raised, reported>>

\* __handle_result: RetryError(operation_name, result.errors) for an
\* ErrorResult, the result otherwise.
HandleResult ==
    /\ gpc \in {"success", "error"}
    /\ IF gpc = "error"
       THEN /\ reported' = Len(errors)
            /\ raised' = errors
            /\ gpc' = "raised"
       ELSE /\ reported' = SuccessAttempts(errors)
            /\ gpc' = "returned"
            /\ UNCHANGED raised
    /\ UNCHANGED <<strategy_attempts, attempts, errors, calls, thrown>>

(***************************************************************************)
(* EventPredictionTracker.result: one event of one streamer, the           *)
(* prediction made on it and the calls of streamer.update_history.         *)
(***************************************************************************)
\* Result.points_won when it is None.
NoPointsWon == -1
\* Prediction.result when it is None.
NoResult == [result_type |-> "NONE", points_won |-> NoPointsWon]
\* event.prediction when it is None.
NoPrediction == [made |-> FALSE, points |-> 0, result |-> NoResult]

ResultType == {"WIN", "LOSE", "REFUND"}
\* The Result objects a prediction-result message may carry.
Results == [result_type : ResultType, points_won : {NoPointsWon} \cup (0..MaxWon)]

ResInit ==
    /\ tracked = FALSE
    /\ ev_prediction = NoPrediction
    /\ history = << >>
    /\ results = 0
    /\ repeat = FALSE
    /\ history_before = << >>

\* Prediction.points_gained
points_gained(p) ==
    IF p.result = NoResult THEN 0
    ELSE IF p.result.result_type = "REFUND" THEN 0
    ELSE IF p.result.result_type = "LOSE" THEN 0 - p.points
    ELSE IF p.result.points_won # NoPointsWon
         THEN p.result.points_won - p.points
         ELSE 0

\* One call streamer.update_history(reason_code, earned, counter).
HistoryCall(reason_code, earned, counter) ==
    [reason_code |-> reason_code, earned |-> earned, counter |-> counter]

\* A result that records the net gain and nothing else.
ResultHistoryGainOnly(p) == <<HistoryCall("PREDICTION", points_gained(p), 1)>>

\* The calls of update_history that result makes for the prediction p, whose
\* result is already set.
ResultHistory(p) ==
    <<HistoryCall("PREDICTION", points_gained(p), 1)>> \o
    (IF p.result.result_type = "REFUND"
     THEN <<HistoryCall("REFUND", 0 - p.points, -1)>>
     ELSE IF p.result.result_type = "WIN" /\ p.result.points_won # NoPointsWon
     THEN <<HistoryCall("PREDICTION", 0 - p.result.points_won, -1)>>
     ELSE << >>)

\* EventPredictionTracker.new for the event.
ResultNew ==
    /\ ~tracked
    /\ tracked' = TRUE
    /\ repeat' = FALSE
    /\ history_before' = history
    /\ UNCHANGED <<ev_prediction, history, results>>

\* EventPredictionTracker.prediction_updated: the event takes the prediction
\* of the message, which has no result.
ResultPredictionUpdated(points) ==
    /\ IF tracked
       THEN ev_prediction' = [made |-> TRUE, points |-> points, result |-> NoResult]
       ELSE UNCHANGED ev_prediction
    /\ repeat' = FALSE
    /\ history_before' = history
    /\ UNCHANGED <<tracked, history, results>>

\* EventPredictionTracker.result
Result(r) ==
    /\ results < MaxResults
    /\ results' = results + 1
    /\ IF tracked /\ ev_prediction.made
       THEN /\ ev_prediction' = [ev_prediction EXCEPT !.result = r]
            /\ history' = history \o ResultHistory(ev_prediction')
       ELSE UNCHANGED <<ev_prediction, history>>
    /\ repeat' = (tracked /\ ev_prediction.made /\ ev_prediction.result = r)
    /\ history_before' = history
    /\ UNCHANGED tracked

(***************************************************************************)
(* create_bet and create_and_place_bet: the amount of the bet.  The share  *)
(* of the balance is computed in binary floating point, as Python does:    *)
(* a float is a sequence of at most Mantissa bits, most significant first, *)
(* and an exponent of two.                                                 *)
(***************************************************************************)
\* Bits of the significand of a Python float.
Mantissa == 53
\* Long numbers are handled in limbs of LimbBits bits.
LimbBits == 16
Limb == 2 ^ LimbBits
\* Limbs of a quotient computed before it is rounded.
QuotientLimbs == 4

\* The LimbBits binary digits of x < Limb.
BitsOfLimb(x) == [i \in 1..LimbBits |-> (x \div 2 ^ (LimbBits - i)) % 2]

\* The binary digits of a sequence of limbs.
BitsOfLimbs(l) ==
    [i \in 1..(Len(l) * LimbBits) |->
        BitsOfLimb(l[((i - 1) \div LimbBits) + 1])[((i - 1) % LimbBits) + 1]]

RECURSIVE FromBits(_)
FromBits(s) ==
    IF s = << >> THEN 0 ELSE 2 * FromBits(SubSeq(s, 1, Len(s) - 1)) + s[Len(s)]

\* The limbs of a sequence of binary digits.
LimbsOfBits(s) ==
    LET n == (Len(s) + LimbBits - 1) \div LimbBits
        pad == [i \in 1..(n * LimbBits - Len(s)) |-> 0] \o s
    IN [k \in 1..n |->
           FromBits(SubSeq(pad, (k - 1) * LimbBits + 1, k * LimbBits))]

\* s without its leading zeros.
Strip(s) ==
    IF \A i \in DOMAIN s : s[i] = 0 THEN << >>
    ELSE LET first == CHOOSE i \in DOMAIN s :
                          s[i] = 1 /\ \A j \in 1..(i - 1) : s[j] = 0
         IN SubSeq(s, first, Len(s))

\* s + 1
Incr(s) ==
    IF \A i \in DOMAIN s : s[i] = 1 THEN <<1>> \o [i \in DOMAIN s |-> 0]
    ELSE LET last == CHOOSE i \in DOMAIN s :
                         s[i] = 0 /\ \A j \in (i + 1)..Len(s) : s[j] = 1
         IN [i \in DOMAIN s |-> IF i < last THEN s[i] ELSE IF i = last THEN 1 ELSE 0]

RECURSIVE QuotLimbs(_, _, _)
\* The first n limbs of the fraction r / d, for r < d.
QuotLimbs(r, d, n) ==
    IF n = 0 THEN << >>
    ELSE <<(r * Limb) \div d>> \o QuotLimbs((r * Limb) % d, d, n - 1)

RECURSIVE QuotRem(_, _, _)
\* What is left of r after n limbs of r / d.
QuotRem(r, d, n) == IF n = 0 THEN r ELSE QuotRem((r * Limb) % d, d, n - 1)

RECURSIVE MulLimbs(_, _, _)
\* l * n + c, for n < Limb / 2
MulLimbs(l, n, c) ==
    IF l = << >> THEN (IF c = 0 THEN << >> ELSE <<c>>)
    ELSE LET v == l[Len(l)] * n + c
         IN MulLimbs(SubSeq(l, 1, Len(l) - 1), n, v \div Limb) \o <<v % Limb>>

\* The binary digits of s * n.
MulBits(s, n) == BitsOfLimbs(MulLimbs(LimbsOfBits(s), n, 0))

\* Round to nearest, ties to even: the Mantissa leading bits of s, and the
\* number of bits dropped.  sticky: the exact value has more digits after s.
RoundBits(s, sticky) ==
    LET t == Strip(s)
        L == Len(t)
    IN IF L <= Mantissa THEN [m |-> t, drop |-> 0]
       ELSE LET head == SubSeq(t, 1, Mantissa)
                tail == SubSeq(t, Mantissa + 1, L)
                rest == sticky \/ \E i \in 2..Len(tail) : tail[i] = 1
                up == tail[1] = 1 /\ (rest \/ head[Mantissa] = 1)
            IN [m |-> IF up THEN Incr(head) ELSE head, drop |-> L - Mantissa]

\* p / d for integers 0 <= p < d * Limb and d > 0 (Python's true division).
TrueDiv(p, d) ==
    LET r == RoundBits(BitsOfLimbs(<<p \div d>> \o QuotLimbs(p % d, d, QuotientLimbs)),
                       QuotRem(p % d, d, QuotientLimbs) # 0)
    IN [m |-> r.m, e |-> r.drop - QuotientLimbs * LimbBits]

\* n * x for an integer n >= 0 and a float x: float(n) is exact.
FloatMul(n, x) ==
    LET r == RoundBits(MulBits(x.m, n), FALSE)
    IN [m |-> r.m, e |-> x.e + r.drop]

\* int(x) for a float x >= 0: truncation.
IntOfFloat(x) ==
    IF x.e >= 0 THEN FromBits(x.m) * 2 ^ x.e
    ELSE IF Len(x.m) + x.e <= 0 THEN 0
    ELSE FromBits(SubSeq(x.m, 1, Len(x.m) + x.e))

Min(a, b) == IF a <= b THEN a ELSE b

\* int(balance * (settings.percentage / 100))
Share(b, p) == IntOfFloat(FloatMul(b, TrueDiv(p, 100)))

\* The amount create_bet gives the Bet.  float(amount) and int(...) of the
\* stealth branch are exact on these values.
Amount(b, p, m, stealth, top) ==
    LET amount == Min(Share(b, p), m)
    IN IF stealth THEN Min(amount, top) ELSE amount

\* No Bet: create_bet returned None, or place_bet was not called.
NoBet == -1
\* BetSettings.max_points by default.
DefaultMaxPoints == 50000

Balances == 0..MaxBalance
Percentages == 1..MaxPercentage
MaxPointsValues == {MaxTop, DefaultMaxPoints}
TopPoints == {0, MaxTop}

\* The state before create_and_place_bet, for given settings and balance.
AmtInitAt(b, p, m, stealth, top, made) ==
    /\ balance = b
    /\ percentage = p
    /\ max_points = m
    /\ stealth_mode = stealth
    /\ top_points = top
    /\ has_prediction = made
    /\ apc = "start"
    /\ bet = NoBet
    /\ place_bet = NoBet

AmtInit ==
    \E b \in Balances, p \in Percentages, m \in MaxPointsValues,
       stealth \in BOOLEAN, top \in TopPoints, made \in BOOLEAN :
        AmtInitAt(b, p, m, stealth, top, made)

\* create_bet: a Bet when the event has no prediction and the strategy finds
\* an outcome.
create_bet(found) ==
    IF ~has_prediction /\ found
    THEN Amount(balance, percentage, max_points, stealth_mode, top_points)
    ELSE NoBet

\* EventPredictionBettor.create_and_place_bet
CreateAndPlaceBet(found, should_skip) ==
    /\ apc = "start"
    /\ apc' = "done"
    /\ bet' = create_bet(found)
    /\ place_bet' = IF bet' # NoBet /\ ~should_skip THEN bet' ELSE NoBet
    /\ UNCHANGED <<balance, percentage, max_points, stealth_mode, top_points,
                   has_prediction>>

(***************************************************************************)
(* Twitch: the selection of the streamers to watch, the watch loop and the *)
(* campaign sync loop.                                                     *)
(***************************************************************************)
Streamers == 1..NumStreamers

\* streamer.is_online and streamer.online_at: offline; online for 30
\* seconds or less; online with online_at 0 or more than 30 seconds ago.
Offline == 0
Recent == 1
Online == 2

\* What the watch loop reads of a streamer.  streak stands for the whole
\* test of Priority.STREAK, drops for drops_condition(), multiplier 0 for
\* viewer_has_points_multiplier() false.
StreamerStates ==
    [online : {Offline, Recent, Online}, channel_points : 0..MaxWatchPoints,
     streak : BOOLEAN, drops : BOOLEAN, multiplier : 0..MaxMultiplier]

\* A streamer the watch loop has nothing to select for.
Unwatched ==
    [online |-> Offline, channel_points |-> 0, streak |-> FALSE, drops |-> FALSE,
     multiplier |-> 0]

Priority ==
    {"ORDER", "POINTS_ASCENDING", "POINTS_DESCENDING", "STREAK", "DROPS", "SUBSCRIBED"}

\* The priority lists of at most MaxPriorities entries.
PriorityLists == UNION {[1..n -> Priority] : n \in 0..MaxPriorities}

\* [x for x in s if x in keep]
Filter(s, keep) ==
    LET idx == {i \in DOMAIN s : s[i] \in keep}
        Nth(k) == CHOOSE i \in idx : Cardinality({j \in idx : j < i}) = k - 1
    IN [k \in 1..Cardinality(idx) |-> s[Nth(k)]]

\* sorted(s, key=..., reverse=...): a stable sort, in both directions.
Sorted(s, key, reverse) ==
    LET Before(i, j) ==
            \/ (IF reverse THEN key[s[i]] > key[s[j]] ELSE key[s[i]] < key[s[j]])
            \/ key[s[i]] = key[s[j]] /\ i < j
        Rank(i) == Cardinality({j \in DOMAIN s : Before(j, i)}) + 1
    IN [r \in DOMAIN s |-> s[CHOOSE i \in DOMAIN s : Rank(i) = r]]

\* The list streamers_index of send_minute_watched_events.
Candidates(st) ==
    Filter([i \in Streamers |-> i], {i \in Streamers : st[i].online = Online})

\* Twitch._priority_candidates
priority_candidates(st, index, prior) ==
    CASE prior = "ORDER" -> index
      [] prior \in {"POINTS_ASCENDING", "POINTS_DESCENDING"} ->
            Sorted(index, [i \in Streamers |-> st[i].channel_points],
                   prior = "POINTS_DESCENDING")
      [] prior = "STREAK" -> Filter(index, {i \in Streamers : st[i].streak})
      [] prior = "DROPS" -> Filter(index, {i \in Streamers : st[i].drops})
      [] prior = "SUBSCRIBED" ->
            Sorted(Filter(index, {i \in Streamers : st[i].multiplier > 0}),
                   [i \in Streamers |-> st[i].multiplier], TRUE)
      [] OTHER -> << >>

max_watch_amount == 2

\* A selection that takes the candidates in the configured order.
select_in_configured_order(st, index, prio) ==
    SubSeq(index, 1, Min(Len(index), max_watch_amount))

\* A test that finds no streamer chosen already.
ChosenNever(index, watching) == FALSE

\* index in streamers_watching
Chosen(index, watching) == index \in Range(watching)

RECURSIVE Extend(_, _)
\* The inner loop of _select_streamers_to_watch, over the candidates left.
Extend(watching, candidates) ==
    IF candidates = << >> THEN watching
    ELSE IF Chosen(Head(candidates), watching) THEN Extend(watching, Tail(candidates))
    ELSE IF Len(watching) + 1 >= max_watch_amount
         THEN Append(watching, Head(candidates))
         ELSE Extend(Append(watching, Head(candidates)), Tail(candidates))

RECURSIVE SelectFrom(_, _, _, _)
\* The outer loop of _select_streamers_to_watch, over the priorities left.
SelectFrom(watching, st, index, prio) ==
    IF prio = << >> \/ Len(watching) >= max_watch_amount THEN watching
    ELSE SelectFrom(Extend(watching, priority_candidates(st, index, Head(prio))),
                    st, index, Tail(prio))

\* Twitch._select_streamers_to_watch
select_streamers_to_watch(st, index, prio) ==
    LET watching == SelectFrom(<< >>, st, index, prio)
    IN SubSeq(watching, 1, Min(Len(watching), max_watch_amount))

\* The loops at rest, for given streamers.
WatchInitAt(st) ==
    /\ streamers = st
    /\ running = TRUE
    /\ streamers_index = << >>
    /\ streamers_watching = << >>
    /\ selected = FALSE
    /\ wpc = "top"
    /\ wpos = 0
    /\ started = {}
    /\ posted = {}
    /\ wpasses = 0
    /\ spc = "top"
    /\ spasses = 0

\* Any streamers.
WatchInit == \E st \in [Streamers -> StreamerStates] : WatchInitAt(st)

\* The streamers before any of them is online.
WatchIdle == WatchInitAt([i \in Streamers |-> Unwatched])

\* The selection of one pass: streamers_index, then
\* _select_streamers_to_watch.
SelectStreamers(prio) ==
    /\ ~selected
    /\ selected' = TRUE
    /\ streamers_index' = Candidates(streamers)
    /\ streamers_watching' =
          select_streamers_to_watch(streamers, streamers_index', prio)
    /\ UNCHANGED <<streamers, running, wpc, wpos, started, posted, wpasses, spc,
                   spasses>>

\* streamer.set_online / set_offline, and the time that passes after
\* online_at: the streamers change between and during the passes.
SetOnline(i, v) ==
    /\ streamers[i].online # v
    /\ streamers' = [streamers EXCEPT ![i].online = v]
    /\ UNCHANGED <<running, streamers_index, streamers_watching, selected, wpc, wpos,
                   started, posted, wpasses, spc, spasses>>

\* The head of a pass of send_minute_watched_events: streamers_index,
\* check_streamer_online for the streamers with a stale update (off: those
\* it finds offline), and the selection.  With nobody to watch the pass is
\* over after its sleep.
WatchSelect(prio, off) ==
    /\ wpc = "top"
    /\ running
    /\ wpasses < MaxPasses
    /\ wpasses' = wpasses + 1
    /\ streamers_index' = Candidates(streamers)
    /\ off \subseteq Range(streamers_index')
    /\ streamers' = [i \in Streamers |->
                        IF i \in off THEN [streamers[i] EXCEPT !.online = Offline]
                        ELSE streamers[i]]
    /\ streamers_watching' =
          select_streamers_to_watch(streamers', streamers_index', prio)
    /\ selected' = TRUE
    /\ started' = {}
    /\ posted' = {}
    /\ IF streamers_watching' = << >>
       THEN wpc' = "top" /\ wpos' = 0
       ELSE wpc' = "for" /\ wpos' = 1
    /\ UNCHANGED <<running, spc, spasses>>

\* How the body of the for loop ends for one streamer: an exception of the
\* PlaybackAccessToken request (caught, continue); a response that fails a
\* test (continue); the minute-watched POST sent; ConnectionError or Timeout
\* of a later request (caught after the body); any other exception of a
\* later statement (caught by the except of the while loop).
HandshakeOutcomes ==
    {"token_error", "refused", "posted", "ConnectionError", "Timeout", "Exception"}

\* One iteration of `for index in streamers_watching`.
Handshake(outcome) ==
    /\ wpc = "for"
    /\ started' = started \cup {streamers_watching[wpos]}
    /\ posted' = IF outcome = "posted"
                 THEN posted \cup {streamers_watching[wpos]} ELSE posted
    /\ IF outcome = "Exception" \/ wpos = Len(streamers_watching)
       THEN wpc' = "top" /\ wpos' = 0
       ELSE wpc' = "for" /\ wpos' = wpos + 1
    /\ UNCHANGED <<streamers, running, streamers_index, streamers_watching, selected,
                   wpasses, spc, spasses>>

\* self.running is set to False when the miner ends.
Stop ==
    /\ running
    /\ running' = FALSE
    /\ UNCHANGED <<streamers, streamers_index, streamers_watching, selected, wpc,
                   wpos, started, posted, wpasses, spc, spasses>>

\* `while self.running` of send_minute_watched_events finds it False.
WatchExit ==
    /\ wpc = "top"
    /\ ~running
    /\ wpc' = "stopped"
    /\ UNCHANGED <<streamers, running, streamers_index, streamers_watching, selected,
                   wpos, started, posted, wpasses, spc, spasses>>

\* How a pass of sync_campaigns ends: normally, with one of the exceptions
\* its except clause names, or with any other exception.
SyncOutcomes == {"synced", "ValueError", "KeyError", "ConnectionError", "Exception"}

\* One pass of the while loop of sync_campaigns.
SyncPass(outcome) ==
    /\ spc = "top"
    /\ running
    /\ spasses < MaxPasses
    /\ spasses' = spasses + 1
    /\ spc' = IF outcome = "Exception" THEN "dead" ELSE "top"
    /\ UNCHANGED <<streamers, running, streamers_index, streamers_watching, selected,
                   wpc, wpos, started, posted, wpasses>>

\* `while self.running` of sync_campaigns finds it False.
SyncExit ==
    /\ spc = "top"
    /\ ~running
    /\ spc' = "stopped"
    /\ UNCHANGED <<streamers, running, streamers_index, streamers_watching, selected,
                   wpc, wpos, started, posted, wpasses, spasses>>

(***************************************************************************)
(* One streamer and two threads: a WebSocket thread in on_message for      *)
(* community-points-user-v1, and a thread in contribute_to_community_goals *)
(* (on_message for community-points-channel-v1 on another client, or       *)
(* load_channel_points_context).  No lock is taken by either.              *)
(***************************************************************************)
ConcInitAt(p, left) ==
    /\ s_channel_points = p
    /\ start_points = p
    /\ goal_left = left
    /\ cpc = "idle"
    /\ c_amount = 0
    /\ loaded = 0
    /\ cres = "none"
    /\ balances = << >>

ConcInit == \E p \in 0..MaxPoints, left \in 1..MaxLeft : ConcInitAt(p, left)

ConcIdle == ConcInitAt(0, 1)

\* on_message, points-earned or points-spent: streamer.channel_points = balance
PointsMessage(b) ==
    /\ Len(balances) < MaxBalanceMessages
    /\ s_channel_points' = b
    /\ balances' = Append(balances, b)
    /\ UNCHANGED <<start_points, goal_left, cpc, c_amount, loaded, cres>>

\* contribute_to_community_goals up to the call of
\* contribute_to_community_goal: amount = min(..., streamer.channel_points)
ContributeStart ==
    /\ cpc = "idle"
    /\ c_amount' = Min(goal_left, s_channel_points)
    /\ IF c_amount' > 0
       THEN cpc' = "request" /\ UNCHANGED cres
       ELSE cpc' = "done" /\ cres' = "skipped"
    /\ UNCHANGED <<s_channel_points, start_points, goal_left, loaded, balances>>

\* contribute_to_community_goal: the request and the tests of its response.
ContributeRequest(ok) ==
    /\ cpc = "request"
    /\ IF ok
       THEN cpc' = "load" /\ UNCHANGED cres
       ELSE cpc' = "done" /\ cres' = "failed"
    /\ UNCHANGED <<s_channel_points, start_points, goal_left, c_amount, loaded,
                   balances>>

\* streamer.channel_points -= amount: the read
ContributeLoad ==
    /\ cpc = "load"
    /\ loaded' = s_channel_points
    /\ cpc' = "store"
    /\ UNCHANGED <<s_channel_points, start_points, goal_left, c_amount, cres,
                   balances>>

\* streamer.channel_points -= amount: the write
ContributeStore ==
    /\ cpc = "store"
    /\ s_channel_points' = loaded - c_amount
    /\ cpc' = "done"
    /\ cres' = "contributed"
    /\ UNCHANGED <<start_points, goal_left, c_amount, loaded, balances>>

(***************************************************************************)
(* Drop: update, Campaign.sync_drops and claim_all_drops_from_inventory.   *)
(***************************************************************************)
\* drop_instance_id when it is None.
NoInstance == 0
\* minutes_required of the drop.
minutes_required == MaxMinutes

\* The values of TimeBasedDropInProgress.SelfEdge.
Progress ==
    [has_preconditions_met : BOOLEAN, current_minutes_watched : 0..MaxMinutes,
     drop_instance_id : {NoInstance} \cup (1..MaxInstances), is_claimed : BOOLEAN]

\* utils.percentage
Percentage(a, b) == IF a = 0 THEN 0 ELSE IntOfFloat(FloatMul(100, TrueDiv(a, b)))

\* Drop.__init__
DropInit ==
    /\ has_preconditions_met = "None"
    /\ current_minutes_watched = 0
    /\ drop_instance_id = NoInstance
    /\ is_claimed = FALSE
    /\ is_claimable = FALSE
    /\ is_printable = FALSE
    /\ percentage_progress = 0

\* Drop.update on a drop that has watched minutes and progress percent so
\* far.  round(p / 25, 4).is_integer() holds exactly for the multiples of 25.
DropUpdate(progress, watched, percent) ==
    LET updated_percentage == Percentage(progress.current_minutes_watched, minutes_required)
        quarter == updated_percentage % 25 = 0
    IN /\ has_preconditions_met' =
              (IF progress.has_preconditions_met THEN "True" ELSE "False")
       /\ is_printable' =
              (/\ progress.current_minutes_watched > watched
               /\ \/ updated_percentage > percent /\ quarter /\ watched # 0
                  \/ progress.current_minutes_watched = 1 /\ watched = 0)
       /\ current_minutes_watched' = progress.current_minutes_watched
       /\ drop_instance_id' = progress.drop_instance_id
       /\ percentage_progress' = updated_percentage

\* is_claimed and is_claimable at the end of update, then the claim that
\* both callers make when the drop is claimable: is_claimed = <result>.
UpdateThenClaim(progress, claimed) ==
    /\ is_claimable' = (~progress.is_claimed /\ progress.drop_instance_id # NoInstance)
    /\ is_claimed' = IF is_claimable' THEN claimed ELSE progress.is_claimed

\* Campaign.sync_drops for the drop of the campaign that the inventory drop
\* matches; claimed is what the callback returns.
SyncDrops(progress, claimed) ==
    /\ DropUpdate(progress, current_minutes_watched, percentage_progress)
    /\ UpdateThenClaim(progress, claimed)

\* claim_all_drops_from_inventory for one drop of the inventory: a new Drop,
\* its update, and claim_drop when it is claimable.
ClaimFromInventory(progress, claimed) ==
    /\ DropUpdate(progress, 0, 0)
    /\ UpdateThenClaim(progress, claimed)

(***************************************************************************)
(* GQL.post_gql_request_batch: make_attempts around __post_gql_request     *)
(* with the parser `lambda value: parse_list(parse, value)`.               *)
(***************************************************************************)
\* attempts of the AttemptStrategy that GQL makes by default.
DefaultAttempts == 3

\* The shapes of one element of a batched response: a JSON object; a list
\* whose items all parse; a list with an item that parse rejects.
ElementShapes == {"object", "list", "list_bad_item"}

\* The batched responses: JSON lists of up to MaxBatch elements.
BatchResponses == UNION {[1..n -> ElementShapes] : n \in 0..MaxBatch}

\* parse_list(parse, value) raises for this element: it is no list, or parse
\* raises on one of its items.
ParseListRaises(shape) == shape # "list"

\* The first element of the response for which parse_list raises, 0 when
\* there is none: list(map(parse, response_json)) stops there.
FirstRaising(response) ==
    IF \E i \in DOMAIN response : ParseListRaises(response[i])
    THEN CHOOSE i \in DOMAIN response :
             /\ ParseListRaises(response[i])
             /\ \A j \in 1..(i - 1) : ~ParseListRaises(response[j])
    ELSE 0

\* What parse_list can raise on an element: "list expected" for an object,
\* what parse raises on the item for a list with a bad item.
ElementExceptions(shape) ==
    IF shape = "object"
    THEN {[kind |-> "InvalidJsonShapeException", errors |-> << >>]}
    ELSE {e \in Exceptions : e.kind # "RequestException"}

BatchInit ==
    /\ b_request = 0
    /\ bpc = "idle"
    /\ b_attempts = 0
    /\ b_errors = << >>
    /\ b_received = FALSE
    /\ b_response = << >>
    /\ b_result = << >>

\* post_gql_request_batch is called with n requests: make_attempts starts.
BatchCall(n) ==
    /\ bpc = "idle"
    /\ b_request' = n
    /\ bpc' = "loop"
    /\ b_attempts' = 0
    /\ b_errors' = << >>
    /\ UNCHANGED <<b_received, b_response, b_result>>

\* One turn of the loop of make_attempts in which the attempt raises e, and
\* __handle_result when the loop ends with it.
BatchRaise(e) ==
    /\ b_attempts' = b_attempts + 1
    /\ b_errors' = AppendError(b_errors, e)
    /\ bpc' = IF ~is_recoverable_error(e) \/ b_attempts' >= DefaultAttempts
              THEN "raised" ELSE "loop"
    /\ UNCHANGED <<b_request, b_result>>

\* A turn in which the request itself fails (transport, HTTP status).
BatchRequestFails ==
    /\ bpc = "loop"
    /\ b_received' = FALSE
    /\ b_response' = << >>
    /\ BatchRaise([kind |-> "RequestException", errors |-> << >>])

\* A turn in which the response is a JSON list: every element goes through
\* parse_list; the list of the results is returned unless one raises (e).
BatchResponse(response, e) ==
    /\ bpc = "loop"
    /\ b_received' = TRUE
    /\ b_response' = response
    /\ IF FirstRaising(response) # 0
       THEN /\ e \in ElementExceptions(response[FirstRaising(response)])
            /\ BatchRaise(e)
       ELSE /\ e.kind = "InvalidJsonShapeException"
            /\ b_attempts' = b_attempts + 1
            /\ bpc' = "returned"
            /\ b_result' = [i \in DOMAIN response |-> i]
            /\ UNCHANGED <<b_request, b_errors>>

(***************************************************************************)
(* HermesWebSocketPool.on_notification: the notifications the clients      *)
(* receive and the on_message calls of the registered listeners.           *)
(***************************************************************************)
\* client.last_message_timestamp when it is None.
NoTimestamp == 0
\* No Message yet.
NoMessage == [timestamp |-> NoTimestamp, identifier |-> "None"]

\* The (timestamp, identifier) pairs of the Messages built from notifications.
Messages == [timestamp : 1..MaxTimestamp, identifier : {"a", "b"}]

\* self.pubsub_message_listeners
Listeners == 1..NumListeners

NotifInit ==
    /\ last_message_timestamp = [c \in Clients |-> NoTimestamp]
    /\ last_message_identifier = [c \in Clients |-> "None"]
    /\ n_message = NoMessage
    /\ n_found = FALSE
    /\ n_calls = [l \in Listeners |-> 0]
    /\ pool_forwarded = NoMessage
    /\ pool_before = NoMessage

\* on_notification(client, response) for a PubSubData notification that
\* makes the Message message; found: self.topic(subscription.id) is not None.
OnNotification(client, message, found) ==
    /\ n_message' = message
    /\ n_found' = found
    /\ pool_before' = pool_forwarded
    /\ IF ~found
       THEN /\ n_calls' = [l \in Listeners |-> 0]
            /\ UNCHANGED <<last_message_timestamp, last_message_identifier,
                           pool_forwarded>>
       ELSE IF /\ last_message_identifier[client] # "None"
               /\ last_message_timestamp[client] # NoTimestamp
               /\ last_message_timestamp[client] = message.timestamp
               /\ last_message_identifier[client] = message.identifier
       THEN /\ n_calls' = [l \in Listeners |-> 0]
            /\ UNCHANGED <<last_message_timestamp, last_message_identifier,
                           pool_forwarded>>
       ELSE /\ last_message_timestamp' =
                   [last_message_timestamp EXCEPT ![client] = message.timestamp]
            /\ last_message_identifier' =
                   [last_message_identifier EXCEPT ![client] = message.identifier]
            /\ n_calls' = [l \in Listeners |-> 1]
            /\ pool_forwarded' = message

(***************************************************************************)
(* skip: the filter_condition of the BetSettings applied to a bet.         *)
(***************************************************************************)
\* OutcomeKeys and Condition.
OutcomeKeys ==
    {"PERCENTAGE_USERS", "ODDS_PERCENTAGE", "ODDS", "TOP_POINTS", "TOTAL_USERS",
     "TOTAL_POINTS", "DECISION_USERS", "DECISION_POINTS"}
Condition == {"GT", "LT", "GTE", "LTE"}

\* settings.filter_condition when it is None.
NoFilter == [by |-> "None", where |-> "None", value |-> 0]
FilterConditions == [by : OutcomeKeys, where : Condition, value : 0..MaxValue]

\* The values of an Outcome and the totals of an event.
Outcomes ==
    [total_users : 0..MaxValue, total_points : 0..MaxValue, odds : 0..MaxValue,
     odds_percentage : 0..MaxValue, percentage_users : 0..MaxValue,
     top_points : 0..MaxValue]
EventTotals == [total_users : 0..MaxValue, total_points : 0..MaxValue]

\* Outcome.get_value: Outcome.__value_mapping[key](self)
get_value(o, key) ==
    CASE key \in {"TOTAL_USERS", "DECISION_USERS"} -> o.total_users
      [] key \in {"TOTAL_POINTS", "DECISION_POINTS"} -> o.total_points
      [] key = "ODDS" -> o.odds
      [] key = "ODDS_PERCENTAGE" -> o.odds_percentage
      [] key = "PERCENTAGE_USERS" -> o.percentage_users
      [] key = "TOP_POINTS" -> o.top_points

\* A skip that reads GTE and LTE as GT and LT.
skip_strict(event, fc, o) ==
    IF fc # NoFilter
    THEN LET compared_value ==
                 IF fc.by = "TOTAL_USERS" THEN event.total_users
                 ELSE IF fc.by = "TOTAL_POINTS" THEN event.total_points
                 ELSE get_value(o, fc.by)
         IN  IF fc.where \in {"GT", "GTE"} /\ compared_value > fc.value
             THEN [skip |-> FALSE, compared_value |-> compared_value]
             ELSE IF fc.where \in {"LT", "LTE"} /\ compared_value < fc.value
             THEN [skip |-> FALSE, compared_value |-> compared_value]
             ELSE [skip |-> TRUE, compared_value |-> compared_value]
    ELSE [skip |-> FALSE, compared_value |-> 0]

\* skip: the event with its totals, the filter condition and the outcome of
\* the bet give the skip bool and the compared value.
skip(event, fc, o) ==
    IF fc # NoFilter
    THEN LET compared_value ==
                 IF fc.by = "TOTAL_USERS" THEN event.total_users
                 ELSE IF fc.by = "TOTAL_POINTS" THEN event.total_points
                 ELSE get_value(o, fc.by)
         IN  IF fc.where = "GT" /\ compared_value > fc.value
             THEN [skip |-> FALSE, compared_value |-> compared_value]
             ELSE IF fc.where = "LT" /\ compared_value < fc.value
             THEN [skip |-> FALSE, compared_value |-> compared_value]
             ELSE IF fc.where = "GTE" /\ compared_value >= fc.value
             THEN [skip |-> FALSE, compared_value |-> compared_value]
             ELSE IF fc.where = "LTE" /\ compared_value <= fc.value
             THEN [skip |-> FALSE, compared_value |-> compared_value]
             ELSE [skip |-> TRUE, compared_value |-> compared_value]
    ELSE [skip |-> FALSE, compared_value |-> 0]

SkipInitAt(event, o, fc) ==
    /\ sk_event = event
    /\ sk_outcome = o
    /\ sk_filter = fc
    /\ sk_done = FALSE
    /\ sk_result = [skip |-> FALSE, compared_value |-> 0]

SkipInit ==
    \E event \in EventTotals, o \in Outcomes, fc \in FilterConditions \cup {NoFilter} :
        SkipInitAt(event, o, fc)

SkipIdle ==
    SkipInitAt([total_users |-> 0, total_points |-> 0],
               [total_users |-> 0, total_points |-> 0, odds |-> 0,
                odds_percentage |-> 0, percentage_users |-> 0, top_points |-> 0],
               NoFilter)

\* bettor.skip(streamer, event_id, bet) is called.
ApplySkip ==
    /\ ~sk_done
    /\ sk_done' = TRUE
    /\ sk_result' = skip(sk_event, sk_filter, sk_outcome)
    /\ UNCHANGED <<sk_event, sk_outcome, sk_filter>>

(***************************************************************************)
(* EventPrediction: __init__ and update, with the totals of the event and   *)
(* of its outcomes.                                                         *)
(***************************************************************************)
\* The lists of Outcomes given to __init__ and to update.
OutcomeTotals == [total_points : 0..MaxValue, total_users : 0..MaxValue]
OutcomeLists == UNION {[1..n -> OutcomeTotals] : n \in 0..MaxOutcomes}

\* The totals a caller of __init__ may give; 0 is the default of both.
Totals == 0..(MaxOutcomes * MaxValue)

\* The loop of update over the outcomes: the sum of total_points.
RECURSIVE SumPoints(_)
SumPoints(outcomes) ==
    IF outcomes = << >> THEN 0
    ELSE outcomes[1].total_points + SumPoints(Tail(outcomes))

\* The same loop: the sum of total_users.
RECURSIVE SumUsers(_)
SumUsers(outcomes) ==
    IF outcomes = << >> THEN 0
    ELSE outcomes[1].total_users + SumUsers(Tail(outcomes))

EventInit ==
    /\ ep_made = FALSE
    /\ ep_outcomes = << >>
    /\ ep_total_points = 0
    /\ ep_total_users = 0

\* EventPrediction.__init__: the outcomes and the totals are stored as given.
EventConstruct(outcomes, total_points, total_users) ==
    /\ ~ep_made
    /\ ep_made' = TRUE
    /\ ep_outcomes' = outcomes
    /\ ep_total_points' = total_points
    /\ ep_total_users' = total_users

\* EventPrediction.update(outcomes); given: outcomes is not None.
EventUpdate(given, outcomes) ==
    /\ ep_made
    /\ ep_outcomes' = IF given THEN outcomes ELSE ep_outcomes
    /\ ep_total_points' = SumPoints(ep_outcomes')
    /\ ep_total_users' = SumUsers(ep_outcomes')
    /\ UNCHANGED ep_made

(***************************************************************************)
(* _select_streamers_to_watch with the priority list it is given.          *)
(***************************************************************************)
\* The priority lists of at most MaxOrder entries.
OrderLists == UNION {[1..n -> Priority] : n \in 0..MaxOrder}

\* No selection made yet.
OrderIdle == priority = << >>

\* Streamers that are all online, with any points, streak, drops and
\* multiplier.
OrderInit ==
    /\ OrderIdle
    /\ \E st \in [Streamers -> {s \in StreamerStates : s.online = Online}] :
           WatchInitAt(st)

\* The selection of one pass for the priority list prio.
OrderSelect(prio) ==
    /\ priority' = prio
    /\ SelectStreamers(prio)

(***************************************************************************)
(* The two loops step by step: Twitch.send_minute_watched_events and       *)
(* Twitch.sync_campaigns with their sleeps (__chuncked_sleep) and their    *)
(* wait for the Internet connection (__check_connection_handler).  Both    *)
(* loops test self.running, which Stop sets to False.                      *)
(***************************************************************************)
Loops == {"watch", "sync"}

\* Where the thread of a loop is: at the `while self.running` test, in the
\* body of the for loop (watch only), in the sleep that ends an iteration, at
\* the `while internet_connection_available() is False` test, in the sleep
\* of that wait, returned, or ended by an exception nothing catches.
Positions ==
    {"top", "body", "sleep", "check_connection", "connection_sleep",
     "returned", "raised"}

\* chunk_size=3, the default of both loops and of __chuncked_sleep.
chunk_size == 3

ExitInit ==
    /\ loop_at = [l \in Loops |-> "top"]
    /\ loop_chunks = [l \in Loops |-> 0]
    /\ loop_left = 0
    /\ loop_slept = FALSE

\* `while self.running` of send_minute_watched_events, and the selection
\* that opens a pass: n streamers are selected.  With none the pass is the
\* sleep of 20 seconds.
WatchTop(n, chunks) ==
    /\ loop_at["watch"] = "top"
    /\ IF ~running
       THEN /\ loop_at' = [loop_at EXCEPT !["watch"] = "returned"]
            /\ UNCHANGED <<loop_chunks, loop_left, loop_slept>>
       ELSE IF n = 0
       THEN /\ loop_at' = [loop_at EXCEPT !["watch"] = "sleep"]
            /\ loop_chunks' = [loop_chunks EXCEPT !["watch"] = chunks]
            /\ loop_left' = 0
            /\ loop_slept' = TRUE
       ELSE /\ loop_at' = [loop_at EXCEPT !["watch"] = "body"]
            /\ loop_left' = n
            /\ loop_slept' = FALSE
            /\ UNCHANGED loop_chunks

\* How the try of one iteration of the for loop ends: the POST made, one of
\* the `continue` statements of the handshake (no data, no signature, a
\* status other than 200, a line that is no URL, an exception of the token
\* request), one of the two exceptions caught, any other exception.
BodyOutcomes == {"done", "continue", "ConnectionError", "Timeout", "Exception"}

\* One iteration of `for index in streamers_watching`, up to its sleep:
\* ConnectionError enters __check_connection_handler, any other exception
\* than the two caught leaves the for loop for the except of the while, and
\* a `continue` goes to the next streamer, or to the end of the pass, past
\* the __chuncked_sleep that ends the iteration.
WatchBody(outcome, chunks) ==
    /\ loop_at["watch"] = "body"
    /\ IF outcome = "Exception"
       THEN /\ loop_at' = [loop_at EXCEPT !["watch"] = "top"]
            /\ loop_left' = 0
            /\ UNCHANGED <<loop_chunks, loop_slept>>
       ELSE IF outcome = "continue"
       THEN /\ loop_left' = loop_left - 1
            /\ loop_at' = [loop_at EXCEPT !["watch"] =
                              IF loop_left > 1 THEN "body" ELSE "top"]
            /\ UNCHANGED <<loop_chunks, loop_slept>>
       ELSE /\ loop_left' = loop_left - 1
            /\ loop_slept' = TRUE
            /\ loop_chunks' = [loop_chunks EXCEPT !["watch"] = chunks]
            /\ loop_at' = [loop_at EXCEPT !["watch"] =
                              IF outcome = "ConnectionError"
                              THEN "check_connection" ELSE "sleep"]

\* How a pass of sync_campaigns ends: no streamer needs the sync (sleep,
\* continue), the sync done, one of the exceptions its except names, or any
\* other exception.
PassOutcomes == {"idle", "synced", "caught", "Exception"}

\* `while self.running` of sync_campaigns and the pass up to its sleep.
SyncTop(outcome, chunks) ==
    /\ loop_at["sync"] = "top"
    /\ UNCHANGED <<loop_left, loop_slept>>
    /\ IF ~running
       THEN /\ loop_at' = [loop_at EXCEPT !["sync"] = "returned"]
            /\ UNCHANGED loop_chunks
       ELSE IF outcome = "Exception"
       THEN /\ loop_at' = [loop_at EXCEPT !["sync"] = "raised"]
            /\ UNCHANGED loop_chunks
       ELSE /\ loop_chunks' = [loop_chunks EXCEPT !["sync"] = chunks]
            /\ loop_at' = [loop_at EXCEPT !["sync"] =
                              IF outcome = "caught"
                              THEN "check_connection" ELSE "sleep"]

\* Where a loop goes on when the sleep of an iteration returns.
AfterSleep(l) == IF l = "watch" /\ loop_left > 0 THEN "body" ELSE "top"

\* interruptible_sleep(lambda: self.running, seconds, step): it returns when
\* the time is over or when running is found False, and sleeps one chunk
\* otherwise.
InterruptibleSleep(l) ==
    /\ loop_at[l] \in {"sleep", "connection_sleep"}
    /\ UNCHANGED <<loop_left, loop_slept>>
    /\ IF running /\ loop_chunks[l] > 0
       THEN /\ loop_chunks' = [loop_chunks EXCEPT ![l] = @ - 1]
            /\ UNCHANGED loop_at
       ELSE /\ loop_chunks' = [loop_chunks EXCEPT ![l] = 0]
            /\ loop_at' = [loop_at EXCEPT ![l] =
                              IF loop_at[l] = "sleep" THEN AfterSleep(l)
                              ELSE "check_connection"]

\* `while internet_connection_available() is False` of
\* __check_connection_handler: with the connection available the handler
\* returns and the loop goes to the sleep of the iteration, otherwise it
\* sleeps one to three minutes and tests again.  The condition does not
\* read self.running.
CheckConnection(l, available, chunks) ==
    /\ loop_at[l] = "check_connection"
    /\ UNCHANGED <<loop_left, loop_slept>>
    /\ IF available
       THEN /\ loop_at' = [loop_at EXCEPT ![l] = "sleep"]
            /\ UNCHANGED loop_chunks
       ELSE /\ loop_at' = [loop_at EXCEPT ![l] = "connection_sleep"]
            /\ loop_chunks' = [loop_chunks EXCEPT ![l] = chunks]

\* A step of the thread of a loop.
LoopStep(l) ==
    \/ l = "watch" /\ \E n \in 0..max_watch_amount, chunks \in 0..chunk_size :
                          WatchTop(n, chunks)
    \/ l = "watch" /\ \E outcome \in BodyOutcomes, chunks \in 0..chunk_size :
                          WatchBody(outcome, chunks)
    \/ l = "sync" /\ \E outcome \in PassOutcomes, chunks \in 0..chunk_size :
                         SyncTop(outcome, chunks)
    \/ InterruptibleSleep(l)
    \/ \E available \in BOOLEAN, chunks \in 0..chunk_size :
           CheckConnection(l, available, chunks)

\* Both loops have ended.
LoopsReturned == \A l \in Loops : loop_at[l] \in {"returned", "raised"}

(***************************************************************************)
(* The pool constructed with room for more than one topic in a client      *)
(* (TopicSpec): the operations are those of PoolSpec.                      *)
(***************************************************************************)
\* HermesWebSocketPool.__init__: the limit given to the constructor.
LimitInit == max_subscriptions_per_client = MaxSubs

TopicInit == max_subscriptions_per_client = MoreSubs

(***************************************************************************)
(* The recovery of a closed client (RecoverySpec): the operations of the   *)
(* pool with a health check that keeps running.                            *)
(***************************************************************************)
\* check_stale_connections reaching a client of the list whose state is
\* CLOSED: stale() is True for it whatever the clock and the connection.
CheckStaleClosed(i) ==
    /\ UNCHANGED faults
    /\ lastSubmit' = 0
    /\ rpc[Health] = "none"
    /\ i \in DOMAIN clients
    /\ cstate[clients[i]] = "Closed"
    /\ rpc' = [rpc EXCEPT ![Health] = "lock"]
    /\ rtarget' = [rtarget EXCEPT ![Health] = clients[i]]
    /\ UNCHANGED <<clients, force_close, nClients, cstate, cindex, pending, subs,
                   origin, sock, proto, ws, rnew, endpc>>

\* A step of __reconnect in thread th.
ReconnectStep(th) ==
    \/ ReconnectLocked(th)
    \/ ReconnectWake(th)
    \/ ReconnectOpenTest(th)
    \/ ReconnectStart(th)

(***************************************************************************)
(* HermesClient.subscribe on one thread and Pool.on_authenticate with      *)
(* HermesClient.subscribe_pending on the WebSocket thread of the same      *)
(* client, statement by statement (RaceSpec).                              *)
(***************************************************************************)
RaceInitAt(queued, topic) ==
    /\ r_state = "Unauthenticated"
    /\ r_pending = queued
    /\ r_subscriptions = << >>
    /\ r_lock = "none"
    /\ r_topic = topic
    /\ r_spc = "start"
    /\ r_wpc = "start"
    /\ r_path = "none"
    /\ r_failed = FALSE

\* The topics queued before the call, and the topic of the call.
RaceInit ==
    \E queued \in {<< >>} \cup {<<t>> : t \in Topics}, topic \in Topics :
        topic \notin Range(queued) /\ RaceInitAt(queued, topic)

RaceIdle == RaceInitAt(<< >>, 1)

\* A subscribe that does not take the lock.
SubscribeUnlocked ==
    /\ r_spc = "start"
    /\ r_spc' = "test"
    /\ UNCHANGED <<r_state, r_pending, r_subscriptions, r_lock, r_topic, r_wpc,
                   r_path, r_failed>>

\* subscribe: `with self.pending_topics_lock` is entered.
SubscribeLock ==
    /\ r_spc = "start"
    /\ r_lock = "none"
    /\ r_lock' = "subscribe"
    /\ r_spc' = "test"
    /\ UNCHANGED <<r_state, r_pending, r_subscriptions, r_topic, r_wpc, r_path,
                   r_failed>>

\* subscribe: `if self.state == State.OPEN`.
SubscribeTest ==
    /\ r_spc = "test"
    /\ r_spc' = IF r_state = "Open" THEN "now" ELSE "append"
    /\ UNCHANGED <<r_state, r_pending, r_subscriptions, r_lock, r_topic, r_wpc,
                   r_path, r_failed>>

\* subscribe_now(topic) of a client in state s with subscriptions held:
\* send_request sends only in state OPEN; a send on a closed socket (not ok)
\* sets the state to CLOSED and the topic is not recorded.
StateAfterNow(s, ok) == IF s = "Open" /\ ~ok THEN "Closed" ELSE s

SubscriptionsAfterNow(s, held, topic, ok) ==
    IF s = "Open" /\ ok THEN Append(held, topic) ELSE held

\* subscribe: self.subscribe_now(topic).
SubscribeNow(ok) ==
    /\ r_spc = "now"
    /\ r_state' = StateAfterNow(r_state, ok)
    /\ r_subscriptions' = SubscriptionsAfterNow(r_state, r_subscriptions, r_topic, ok)
    /\ r_failed' = (r_failed \/ (r_state = "Open" /\ ~ok))
    /\ r_path' = "now"
    /\ r_spc' = "unlock"
    /\ UNCHANGED <<r_pending, r_lock, r_topic, r_wpc>>

\* subscribe: self.pending_topics.append(topic).
SubscribeAppend ==
    /\ r_spc = "append"
    /\ r_pending' = Append(r_pending, r_topic)
    /\ r_path' = "queued"
    /\ r_spc' = "unlock"
    /\ UNCHANGED <<r_state, r_subscriptions, r_lock, r_topic, r_wpc, r_failed>>

\* subscribe: the with block is left.
SubscribeUnlock ==
    /\ r_spc = "unlock"
    /\ r_lock' = IF r_lock = "subscribe" THEN "none" ELSE r_lock
    /\ r_spc' = "done"
    /\ UNCHANGED <<r_state, r_pending, r_subscriptions, r_topic, r_wpc, r_path,
                   r_failed>>

\* on_authenticate without error: client.state = State.OPEN.
AuthenticateSetsOpen ==
    /\ r_wpc = "start"
    /\ r_state' = "Open"
    /\ r_wpc' = "test"
    /\ UNCHANGED <<r_pending, r_subscriptions, r_lock, r_topic, r_spc, r_path,
                   r_failed>>

\* subscribe_pending: `if self.state == State.OPEN`.
PendingTest ==
    /\ r_wpc = "test"
    /\ r_wpc' = IF r_state = "Open" THEN "lock" ELSE "done"
    /\ UNCHANGED <<r_state, r_pending, r_subscriptions, r_lock, r_topic, r_spc,
                   r_path, r_failed>>

\* subscribe_pending: `with self.pending_topics_lock` is entered.
PendingLock ==
    /\ r_wpc = "lock"
    /\ r_lock = "none"
    /\ r_lock' = "flush"
    /\ r_wpc' = "loop"
    /\ UNCHANGED <<r_state, r_pending, r_subscriptions, r_topic, r_spc, r_path,
                   r_failed>>

\* subscribe_pending: one turn of `while len(self.pending_topics) > 0`, the
\* last topic popped and given to subscribe_now; the with block is left when
\* the list is empty.
PendingLoop(ok) ==
    /\ r_wpc = "loop"
    /\ IF r_pending = << >>
       THEN /\ r_lock' = "none"
            /\ r_wpc' = "done"
            /\ UNCHANGED <<r_state, r_pending, r_subscriptions, r_failed>>
       ELSE LET topic == r_pending[Len(r_pending)] IN
            /\ r_pending' = SubSeq(r_pending, 1, Len(r_pending) - 1)
            /\ r_state' = StateAfterNow(r_state, ok)
            /\ r_subscriptions' =
                   SubscriptionsAfterNow(r_state, r_subscriptions, topic, ok)
            /\ r_failed' = (r_failed \/ (r_state = "Open" /\ ~ok))
            /\ UNCHANGED <<r_lock, r_wpc>>
    /\ UNCHANGED <<r_topic, r_spc, r_path>>

(***************************************************************************)
(* The locks.  HermesWebSocketPool has one threading.Lock (Pool.py 55);    *)
(* every HermesClient has pending_topics_lock and close_lock (Client.py    *)
(* 110, 113).  None of them is reentrant.  A call of the pool or of a      *)
(* client is reduced to the lock operations it performs, in program order: *)
(* a `with` statement is an acquire, the operations of its body, and a     *)
(* release.  Sends, sleeps and the websocket library's close take no lock  *)
(* of the pool or of a client.                                             *)
(***************************************************************************)
NumLockClients == 2
NumLockThreads == 3

LockClients == 1..NumLockClients
LockThreads == 1..NumLockThreads

PoolLock == <<"pool", 0>>
PendingTopicsLock(c) == <<"pending_topics", c>>
CloseLock(c) == <<"close", c>>

Locks ==
    {PoolLock} \cup {PendingTopicsLock(c) : c \in LockClients}
               \cup {CloseLock(c) : c \in LockClients}

With(lock, body) ==
    <<[op |-> "acquire", lock |-> lock]>> \o body
        \o <<[op |-> "release", lock |-> lock]>>

\* one program after the other, for every client in list order
RECURSIVE ForEachClient(_, _)
ForEachClient(Prog(_), n) ==
    IF n = 0 THEN << >> ELSE ForEachClient(Prog, n - 1) \o Prog(n)

\* HermesClient.all_topics: the two lists are read under pending_topics_lock
AllTopicsLocks(c) == With(PendingTopicsLock(c), << >>)

\* HermesClient.close: the state is set under close_lock; the socket is
\* closed after the lock is released
CloseLocks(c) == With(CloseLock(c), << >>)

\* a flush that would re-enter the pool while it holds the queue's lock
SubscribePendingReentering(c) ==
    With(PendingTopicsLock(c), With(PoolLock, << >>))

\* HermesClient.subscribe_pending, called by on_authenticate on the client's
\* own thread: the queue is flushed under pending_topics_lock, and
\* subscribe_now only sends
SubscribePendingLocks(c) == With(PendingTopicsLock(c), << >>)

\* HermesWebSocketPool.submit, the topic going to client c: under the pool
\* lock, __subscribed and __next_available_client read every client's
\* topics, then HermesClient.subscribe takes the chosen client's
\* pending_topics_lock
SubmitLocks(c) ==
    With(PoolLock,
         ForEachClient(AllTopicsLocks, NumLockClients)
             \o ForEachClient(AllTopicsLocks, NumLockClients)
             \o With(PendingTopicsLock(c), << >>))

\* HermesWebSocketPool.__reconnect for client c, called by on_close,
\* on_reconnect, on_error and check_stale_connections: under the pool lock
\* the client is closed and, unless the pool is ending or the client is no
\* longer installed, its topics are read for the replacement; the sleep and
\* the replacement's open follow the release
ReconnectLocks(c, replaces) ==
    With(PoolLock,
         CloseLocks(c) \o (IF replaces THEN AllTopicsLocks(c) ELSE << >>))

ReconnectReplacing(c) == ReconnectLocks(c, TRUE)

\* HermesWebSocketPool.check_stale_connections: the list is read without the
\* pool lock and every stale client is reconnected in turn
CheckStaleLocks == ForEachClient(ReconnectReplacing, NumLockClients)

\* HermesWebSocketPool.end: every client is closed under the pool lock
EndLocks == With(PoolLock, ForEachClient(CloseLocks, NumLockClients))

LockPrograms ==
    {SubmitLocks(c) : c \in LockClients}
        \cup {ReconnectLocks(c, r) : c \in LockClients, r \in BOOLEAN}
        \cup {SubscribePendingLocks(c) : c \in LockClients}
        \cup {CloseLocks(c) : c \in LockClients}
        \cup {CheckStaleLocks, EndLocks}

LockIdle ==
    /\ lk_holder = [l \in Locks |-> 0]
    /\ lk_prog = [th \in LockThreads |-> << >>]
    /\ lk_pc = [th \in LockThreads |-> 1]

LockInit ==
    /\ lk_holder = [l \in Locks |-> 0]
    /\ lk_prog \in [LockThreads -> LockPrograms]
    /\ lk_pc = [th \in LockThreads |-> 1]

Running(th) == lk_pc[th] <= Len(lk_prog[th])
NextOp(th) == lk_prog[th][lk_pc[th]]

\* threading.Lock.acquire: succeeds only when the lock is free, whoever asks
Acquire(th) ==
    /\ Running(th)
    /\ NextOp(th).op = "acquire"
    /\ lk_holder[NextOp(th).lock] = 0
    /\ lk_holder' = [lk_holder EXCEPT ![NextOp(th).lock] = th]
    /\ lk_pc' = [lk_pc EXCEPT ![th] = @ + 1]
    /\ UNCHANGED lk_prog

\* threading.Lock.release at the end of a `with` block
Release(th) ==
    /\ Running(th)
    /\ NextOp(th).op = "release"
    /\ lk_holder' = [lk_holder EXCEPT ![NextOp(th).lock] = 0]
    /\ lk_pc' = [lk_pc EXCEPT ![th] = @ + 1]
    /\ UNCHANGED lk_prog

(***************************************************************************)
(* The specifications.  Each one starts from the initial state of every    *)
(* subsystem and moves the variables of one.                               *)
(***************************************************************************)
PoolOnly ==
    UNCHANGED <<betVars, gqlVars, resVars, amtVars, watchVars, concVars,
                dropVars, batchVars, notifVars, skipVars, eventVars, orderVars,
                exitVars, limitVars, raceVars, lockVars>>
BetOnly ==
    UNCHANGED <<poolVars, gqlVars, resVars, amtVars, watchVars, concVars,
                dropVars, batchVars, notifVars, skipVars, eventVars, orderVars,
                exitVars, limitVars, raceVars, lockVars>>
GqlOnly ==
    UNCHANGED <<poolVars, betVars, resVars, amtVars, watchVars, concVars,
                dropVars, batchVars, notifVars, skipVars, eventVars, orderVars,
                exitVars, limitVars, raceVars, lockVars>>
ResOnly ==
    UNCHANGED <<poolVars, betVars, gqlVars, amtVars, watchVars, concVars,
                dropVars, batchVars, notifVars, skipVars, eventVars, orderVars,
                exitVars, limitVars, raceVars, lockVars>>
AmtOnly ==
    UNCHANGED <<poolVars, betVars, gqlVars, resVars, watchVars, concVars,
                dropVars, batchVars, notifVars, skipVars, eventVars, orderVars,
                exitVars, limitVars, raceVars, lockVars>>
WatchOnly ==
    UNCHANGED <<poolVars, betVars, gqlVars, resVars, amtVars, concVars,
                dropVars, batchVars, notifVars, skipVars, eventVars, orderVars,
                exitVars, limitVars, raceVars, lockVars>>
ConcOnly ==
    UNCHANGED <<poolVars, betVars, gqlVars, resVars, amtVars, watchVars,
                dropVars, batchVars, notifVars, skipVars, eventVars, orderVars,
                exitVars, limitVars, raceVars, lockVars>>
DropOnly ==
    UNCHANGED <<poolVars, betVars, gqlVars, resVars, amtVars, watchVars,
                concVars, batchVars, notifVars, skipVars, eventVars, orderVars,
                exitVars, limitVars, raceVars, lockVars>>
BatchOnly ==
    UNCHANGED <<poolVars, betVars, gqlVars, resVars, amtVars, watchVars,
                concVars, dropVars, notifVars, skipVars, eventVars, orderVars,
                exitVars, limitVars, raceVars, lockVars>>
NotifOnly ==
    UNCHANGED <<poolVars, betVars, gqlVars, resVars, amtVars, watchVars,
                concVars, dropVars, batchVars, skipVars, eventVars, orderVars,
                exitVars, limitVars, raceVars, lockVars>>
SkipOnly ==
    UNCHANGED <<poolVars, betVars, gqlVars, resVars, amtVars, watchVars,
                concVars, dropVars, batchVars, notifVars, eventVars, orderVars,
                exitVars, limitVars, raceVars, lockVars>>
EventOnly ==
    UNCHANGED <<poolVars, betVars, gqlVars, resVars, amtVars, watchVars,
                concVars, dropVars, batchVars, notifVars, skipVars, orderVars,
                exitVars, limitVars, raceVars, lockVars>>
OrderOnly ==
    UNCHANGED <<poolVars, betVars, gqlVars, resVars, amtVars, concVars,
                dropVars, batchVars, notifVars, skipVars, eventVars, exitVars,
                limitVars, raceVars, lockVars>>
TimerOnly ==
    UNCHANGED <<poolVars, gqlVars, resVars, amtVars, concVars, dropVars,
                batchVars, notifVars, skipVars, eventVars, orderVars, exitVars,
                limitVars, raceVars, lockVars>>
ExitOnly ==
    UNCHANGED <<poolVars, betVars, gqlVars, resVars, amtVars, concVars,
                dropVars, batchVars, notifVars, skipVars, eventVars, orderVars,
                limitVars, raceVars, lockVars>>
RaceOnly ==
    UNCHANGED <<poolVars, betVars, gqlVars, resVars, amtVars, watchVars,
                concVars, dropVars, batchVars, notifVars, skipVars, eventVars,
                orderVars, exitVars, limitVars, lockVars>>
LockOnly ==
    UNCHANGED <<poolVars, betVars, gqlVars, resVars, amtVars, watchVars,
                concVars, dropVars, batchVars, notifVars, skipVars, eventVars,
                orderVars, exitVars, limitVars, raceVars>>

\* The other subsystems at rest.
AmtIdle == AmtInitAt(0, 1, DefaultMaxPoints, FALSE, 0, FALSE)

PoolStart ==
    /\ PoolInit
    /\ BetInit /\ channel_points = 0 /\ minimum_points = NoMinimum
    /\ GqlInit /\ strategy_attempts = 0
    /\ ResInit
    /\ AmtIdle
    /\ WatchIdle
    /\ ConcIdle
    /\ DropInit
    /\ BatchInit
    /\ NotifInit
    /\ SkipIdle
    /\ EventInit
    /\ OrderIdle
    /\ ExitInit
    /\ LimitInit
    /\ RaceIdle
    /\ LockIdle

PoolNext ==
    \/ PoolOnly /\ \E t \in Topics : Submit(t)
    \/ PoolOnly /\ \E th \in Threads : ReconnectLocked(th)
    \/ PoolOnly /\ \E th \in Threads : ReconnectWake(th)
    \/ PoolOnly /\ \E th \in Threads : ReconnectOpenTest(th)
    \/ PoolOnly /\ \E th \in Threads : ReconnectStart(th)
    \/ PoolOnly /\ \E i \in Clients : HealthCheck(i)
    \/ PoolOnly /\ EndFlag
    \/ PoolOnly /\ EndClose
    \/ PoolOnly /\ \E c \in Clients : Connect(c)
    \/ PoolOnly /\ \E c \in Clients : Drop(c)
    \/ PoolOnly /\ \E c \in Clients : OnWelcome(c)
    \/ PoolOnly /\ \E c \in Clients : OnWelcomeLate(c)
    \/ PoolOnly /\ \E c \in Clients : AuthenticateLate(c)
    \/ PoolOnly /\ \E c \in Clients : OnAuthenticateOk(c)
    \/ PoolOnly /\ \E c \in Clients : OnAuthenticateOkLate(c)
    \/ PoolOnly /\ \E c \in Clients : OnAuthenticateErr(c)
    \/ PoolOnly /\ \E c \in Clients : OnReconnect(c)
    \/ PoolOnly /\ \E c \in Clients : OnError(c)
    \/ PoolOnly /\ \E c \in Clients : OnClose(c)

PoolSpec == PoolStart /\ [][PoolNext]_vars

BetStart ==
    /\ BetInit
    /\ PoolInit
    /\ GqlInit /\ strategy_attempts = 0
    /\ ResInit
    /\ AmtIdle
    /\ WatchIdle
    /\ ConcIdle
    /\ DropInit
    /\ BatchInit
    /\ NotifInit
    /\ SkipIdle
    /\ EventInit
    /\ OrderIdle
    /\ ExitInit
    /\ LimitInit
    /\ RaceIdle
    /\ LockIdle

BetNext ==
    \/ BetOnly /\ \E e \in EventIds, data \in Payloads, seconds \in Seconds :
                     New(e, data, seconds)
    \/ BetOnly /\ \E e \in EventIds, data \in Payloads : Update(e, data)
    \/ BetOnly /\ \E e \in EventIds : PredictionUpdated(e)
    \/ BetOnly /\ \E e \in EventIds, found \in BOOLEAN, should_skip \in BOOLEAN :
                     TimerFires(e, found, should_skip)
    \/ BetOnly /\ \E p \in 0..MaxPoints : PointsChange(p)

BetSpec == BetStart /\ [][BetNext]_vars

GqlStart ==
    /\ GqlInit
    /\ ResInit
    /\ PoolInit
    /\ BetInit /\ channel_points = 0 /\ minimum_points = NoMinimum
    /\ AmtIdle
    /\ WatchIdle
    /\ ConcIdle
    /\ DropInit
    /\ BatchInit
    /\ NotifInit
    /\ SkipIdle
    /\ EventInit
    /\ OrderIdle
    /\ ExitInit
    /\ LimitInit
    /\ RaceIdle
    /\ LockIdle

GqlNext ==
    \/ GqlOnly /\ MakeAttempts
    \/ GqlOnly /\ LoopExit
    \/ GqlOnly /\ AttemptSucceeds
    \/ GqlOnly /\ \E e \in Exceptions : AttemptFails(e)
    \/ GqlOnly /\ HandleResult

GqlSpec == GqlStart /\ [][GqlNext]_vars

ResStart ==
    /\ ResInit
    /\ PoolInit
    /\ BetInit /\ channel_points = 0 /\ minimum_points = NoMinimum
    /\ GqlInit /\ strategy_attempts = 0
    /\ AmtIdle
    /\ WatchIdle
    /\ ConcIdle
    /\ DropInit
    /\ BatchInit
    /\ NotifInit
    /\ SkipIdle
    /\ EventInit
    /\ OrderIdle
    /\ ExitInit
    /\ LimitInit
    /\ RaceIdle
    /\ LockIdle

ResNext ==
    \/ ResOnly /\ ResultNew
    \/ ResOnly /\ \E points \in 1..MaxBet : ResultPredictionUpdated(points)
    \/ ResOnly /\ \E r \in Results : Result(r)

ResSpec == ResStart /\ [][ResNext]_vars

AmtStart ==
    /\ AmtInit
    /\ PoolInit
    /\ BetInit /\ channel_points = 0 /\ minimum_points = NoMinimum
    /\ GqlInit /\ strategy_attempts = 0
    /\ ResInit
    /\ WatchIdle
    /\ ConcIdle
    /\ DropInit
    /\ BatchInit
    /\ NotifInit
    /\ SkipIdle
    /\ EventInit
    /\ OrderIdle
    /\ ExitInit
    /\ LimitInit
    /\ RaceIdle
    /\ LockIdle

AmtNext ==
    AmtOnly /\ \E found \in BOOLEAN, should_skip \in BOOLEAN :
                  CreateAndPlaceBet(found, should_skip)

AmtSpec == AmtStart /\ [][AmtNext]_vars

SelStart ==
    /\ WatchInit
    /\ PoolInit
    /\ BetInit /\ channel_points = 0 /\ minimum_points = NoMinimum
    /\ GqlInit /\ strategy_attempts = 0
    /\ ResInit
    /\ AmtIdle
    /\ ConcIdle
    /\ DropInit
    /\ BatchInit
    /\ NotifInit
    /\ SkipIdle
    /\ EventInit
    /\ OrderIdle
    /\ ExitInit
    /\ LimitInit
    /\ RaceIdle
    /\ LockIdle

SelNext == WatchOnly /\ \E prio \in PriorityLists : SelectStreamers(prio)

SelSpec == SelStart /\ [][SelNext]_vars

LoopStart ==
    /\ WatchIdle
    /\ PoolInit
    /\ BetInit /\ channel_points = 0 /\ minimum_points = NoMinimum
    /\ GqlInit /\ strategy_attempts = 0
    /\ ResInit
    /\ AmtIdle
    /\ ConcIdle
    /\ DropInit
    /\ BatchInit
    /\ NotifInit
    /\ SkipIdle
    /\ EventInit
    /\ OrderIdle
    /\ ExitInit
    /\ LimitInit
    /\ RaceIdle
    /\ LockIdle

LoopNext ==
    \/ WatchOnly /\ \E i \in Streamers, v \in {Offline, Recent, Online} : SetOnline(i, v)
    \/ WatchOnly /\ \E prio \in PriorityLists, off \in SUBSET Streamers :
                       WatchSelect(prio, off)
    \/ WatchOnly /\ \E outcome \in HandshakeOutcomes : Handshake(outcome)
    \/ WatchOnly /\ Stop
    \/ WatchOnly /\ WatchExit
    \/ WatchOnly /\ \E outcome \in SyncOutcomes : SyncPass(outcome)
    \/ WatchOnly /\ SyncExit

LoopSpec == LoopStart /\ [][LoopNext]_vars

ConcStart ==
    /\ ConcInit
    /\ PoolInit
    /\ BetInit /\ channel_points = 0 /\ minimum_points = NoMinimum
    /\ GqlInit /\ strategy_attempts = 0
    /\ ResInit
    /\ AmtIdle
    /\ WatchIdle
    /\ DropInit
    /\ BatchInit
    /\ NotifInit
    /\ SkipIdle
    /\ EventInit
    /\ OrderIdle
    /\ ExitInit
    /\ LimitInit
    /\ RaceIdle
    /\ LockIdle

ConcNext ==
    \/ ConcOnly /\ \E b \in 0..MaxPoints : PointsMessage(b)
    \/ ConcOnly /\ ContributeStart
    \/ ConcOnly /\ \E ok \in BOOLEAN : ContributeRequest(ok)
    \/ ConcOnly /\ ContributeLoad
    \/ ConcOnly /\ ContributeStore

ConcSpec == ConcStart /\ [][ConcNext]_vars

DropStart ==
    /\ DropInit
    /\ PoolInit
    /\ BetInit /\ channel_points = 0 /\ minimum_points = NoMinimum
    /\ GqlInit /\ strategy_attempts = 0
    /\ ResInit
    /\ AmtIdle
    /\ WatchIdle
    /\ ConcIdle
    /\ BatchInit
    /\ NotifInit
    /\ SkipIdle
    /\ EventInit
    /\ OrderIdle
    /\ ExitInit
    /\ LimitInit
    /\ RaceIdle
    /\ LockIdle

DropNext ==
    \/ DropOnly /\ \E progress \in Progress, claimed \in BOOLEAN :
                      SyncDrops(progress, claimed)
    \/ DropOnly /\ \E progress \in Progress, claimed \in BOOLEAN :
                      ClaimFromInventory(progress, claimed)

DropSpec == DropStart /\ [][DropNext]_vars

BatchStart ==
    /\ BatchInit
    /\ PoolInit
    /\ BetInit /\ channel_points = 0 /\ minimum_points = NoMinimum
    /\ GqlInit /\ strategy_attempts = 0
    /\ ResInit
    /\ AmtIdle
    /\ WatchIdle
    /\ ConcIdle
    /\ DropInit
    /\ NotifInit
    /\ SkipIdle
    /\ EventInit
    /\ OrderIdle
    /\ ExitInit
    /\ LimitInit
    /\ RaceIdle
    /\ LockIdle

BatchNext ==
    \/ BatchOnly /\ \E n \in 1..MaxBatch : BatchCall(n)
    \/ BatchOnly /\ BatchRequestFails
    \/ BatchOnly /\ \E response \in BatchResponses, e \in Exceptions :
                        BatchResponse(response, e)

BatchSpec == BatchStart /\ [][BatchNext]_vars

NotifStart ==
    /\ NotifInit
    /\ BatchInit
    /\ PoolInit
    /\ BetInit /\ channel_points = 0 /\ minimum_points = NoMinimum
    /\ GqlInit /\ strategy_attempts = 0
    /\ ResInit
    /\ AmtIdle
    /\ WatchIdle
    /\ ConcIdle
    /\ DropInit
    /\ SkipIdle
    /\ EventInit
    /\ OrderIdle
    /\ ExitInit
    /\ LimitInit
    /\ RaceIdle
    /\ LockIdle

NotifNext ==
    \/ NotifOnly /\ \E client \in Clients, message \in Messages, found \in BOOLEAN :
                        OnNotification(client, message, found)

NotifSpec == NotifStart /\ [][NotifNext]_vars

SkipStart ==
    /\ SkipInit
    /\ BatchInit
    /\ PoolInit
    /\ BetInit /\ channel_points = 0 /\ minimum_points = NoMinimum
    /\ GqlInit /\ strategy_attempts = 0
    /\ ResInit
    /\ AmtIdle
    /\ WatchIdle
    /\ ConcIdle
    /\ DropInit
    /\ NotifInit
    /\ EventInit
    /\ OrderIdle
    /\ ExitInit
    /\ LimitInit
    /\ RaceIdle
    /\ LockIdle

SkipNext ==
    \/ SkipOnly /\ ApplySkip

SkipSpec == SkipStart /\ [][SkipNext]_vars

EventStart ==
    /\ EventInit
    /\ BatchInit
    /\ PoolInit
    /\ BetInit /\ channel_points = 0 /\ minimum_points = NoMinimum
    /\ GqlInit /\ strategy_attempts = 0
    /\ ResInit
    /\ AmtIdle
    /\ WatchIdle
    /\ ConcIdle
    /\ DropInit
    /\ NotifInit
    /\ SkipIdle
    /\ OrderIdle
    /\ ExitInit
    /\ LimitInit
    /\ RaceIdle
    /\ LockIdle

EventNext ==
    \/ EventOnly /\ \E outcomes \in OutcomeLists, total_points \in Totals,
                      total_users \in Totals :
                        EventConstruct(outcomes, total_points, total_users)
    \/ EventOnly /\ \E given \in BOOLEAN, outcomes \in OutcomeLists :
                        EventUpdate(given, outcomes)

EventSpec == EventStart /\ [][EventNext]_vars

OrderStart ==
    /\ OrderInit
    /\ BatchInit
    /\ PoolInit
    /\ BetInit /\ channel_points = 0 /\ minimum_points = NoMinimum
    /\ GqlInit /\ strategy_attempts = 0
    /\ ResInit
    /\ AmtIdle
    /\ ConcIdle
    /\ DropInit
    /\ NotifInit
    /\ SkipIdle
    /\ EventInit
    /\ ExitInit
    /\ LimitInit
    /\ RaceIdle
    /\ LockIdle

OrderNext ==
    \/ OrderOnly /\ \E prio \in OrderLists : OrderSelect(prio)

OrderSpec == OrderStart /\ [][OrderNext]_vars

TimerStart ==
    /\ BetInit
    /\ WatchIdle
    /\ PoolInit
    /\ GqlInit /\ strategy_attempts = 0
    /\ ResInit
    /\ AmtIdle
    /\ ConcIdle
    /\ DropInit
    /\ BatchInit
    /\ NotifInit
    /\ SkipIdle
    /\ EventInit
    /\ OrderIdle
    /\ ExitInit
    /\ LimitInit
    /\ RaceIdle
    /\ LockIdle

\* The bet timers and the shutdown: new events start timers, timers fire,
\* and running is set to false.
TimerNext ==
    \/ TimerOnly /\ UNCHANGED watchVars
          /\ \E e \in EventIds, data \in Payloads, seconds \in Seconds :
                 New(e, data, seconds)
    \/ TimerOnly /\ UNCHANGED watchVars
          /\ \E e \in EventIds, found \in BOOLEAN, should_skip \in BOOLEAN :
                 TimerFires(e, found, should_skip)
    \/ TimerOnly /\ UNCHANGED betVars /\ Stop

TimerSpec == TimerStart /\ [][TimerNext]_vars

ExitStart ==
    /\ ExitInit
    /\ BatchInit
    /\ PoolInit
    /\ BetInit /\ channel_points = 0 /\ minimum_points = NoMinimum
    /\ GqlInit /\ strategy_attempts = 0
    /\ ResInit
    /\ AmtIdle
    /\ WatchIdle
    /\ ConcIdle
    /\ DropInit
    /\ NotifInit
    /\ SkipIdle
    /\ EventInit
    /\ OrderIdle
    /\ LimitInit
    /\ RaceIdle
    /\ LockIdle

ExitNext ==
    \/ ExitOnly /\ UNCHANGED exitVars /\ Stop
    \/ ExitOnly /\ UNCHANGED watchVars
          /\ \E n \in 0..max_watch_amount, chunks \in 0..chunk_size :
                 WatchTop(n, chunks)
    \/ ExitOnly /\ UNCHANGED watchVars
          /\ \E outcome \in BodyOutcomes, chunks \in 0..chunk_size :
                 WatchBody(outcome, chunks)
    \/ ExitOnly /\ UNCHANGED watchVars
          /\ \E outcome \in PassOutcomes, chunks \in 0..chunk_size :
                 SyncTop(outcome, chunks)
    \/ ExitOnly /\ UNCHANGED watchVars /\ \E l \in Loops : InterruptibleSleep(l)
    \/ ExitOnly /\ UNCHANGED watchVars
          /\ \E l \in Loops, available \in BOOLEAN, chunks \in 0..chunk_size :
                 CheckConnection(l, available, chunks)

\* Each loop runs in a thread of its own, which the scheduler keeps running
\* while it has a step to take; nothing is assumed of Stop or of the
\* connection.
ExitFairness ==
    \A l \in Loops : WF_vars(ExitOnly /\ UNCHANGED watchVars /\ LoopStep(l))

ExitSpec == ExitStart /\ [][ExitNext]_vars /\ ExitFairness

TopicStart ==
    /\ TopicInit
    /\ BatchInit
    /\ PoolInit
    /\ BetInit /\ channel_points = 0 /\ minimum_points = NoMinimum
    /\ GqlInit /\ strategy_attempts = 0
    /\ ResInit
    /\ AmtIdle
    /\ WatchIdle
    /\ ConcIdle
    /\ DropInit
    /\ NotifInit
    /\ SkipIdle
    /\ EventInit
    /\ OrderIdle
    /\ ExitInit
    /\ RaceIdle
    /\ LockIdle

TopicNext ==
    PoolNext

TopicSpec == TopicStart /\ [][TopicNext]_vars

RecoveryStart ==
    /\ BatchInit
    /\ PoolInit
    /\ BetInit /\ channel_points = 0 /\ minimum_points = NoMinimum
    /\ GqlInit /\ strategy_attempts = 0
    /\ ResInit
    /\ AmtIdle
    /\ WatchIdle
    /\ ConcIdle
    /\ DropInit
    /\ NotifInit
    /\ SkipIdle
    /\ EventInit
    /\ OrderIdle
    /\ ExitInit
    /\ LimitInit
    /\ RaceIdle
    /\ LockIdle

\* The operations of PoolSpec on a pool asked for one topic, and the health
\* check of a closed client.
RecoveryNext ==
    \/ PoolOnly /\ \E t \in {1} : Submit(t)
    \/ PoolOnly /\ \E th \in Threads : ReconnectLocked(th)
    \/ PoolOnly /\ \E th \in Threads : ReconnectWake(th)
    \/ PoolOnly /\ \E th \in Threads : ReconnectOpenTest(th)
    \/ PoolOnly /\ \E th \in Threads : ReconnectStart(th)
    \/ PoolOnly /\ \E i \in Clients : HealthCheck(i)
    \/ PoolOnly /\ EndFlag
    \/ PoolOnly /\ EndClose
    \/ PoolOnly /\ \E c \in Clients : Connect(c)
    \/ PoolOnly /\ \E c \in Clients : Drop(c)
    \/ PoolOnly /\ \E c \in Clients : OnWelcome(c)
    \/ PoolOnly /\ \E c \in Clients : OnWelcomeLate(c)
    \/ PoolOnly /\ \E c \in Clients : AuthenticateLate(c)
    \/ PoolOnly /\ \E c \in Clients : OnAuthenticateOk(c)
    \/ PoolOnly /\ \E c \in Clients : OnAuthenticateOkLate(c)
    \/ PoolOnly /\ \E c \in Clients : OnAuthenticateErr(c)
    \/ PoolOnly /\ \E c \in Clients : OnReconnect(c)
    \/ PoolOnly /\ \E c \in Clients : OnError(c)
    \/ PoolOnly /\ \E c \in Clients : OnClose(c)
    \/ PoolOnly /\ \E i \in Clients : CheckStaleClosed(i)

\* The health check keeps being run, and a thread inside __reconnect goes
\* on: its sleep ends and the Internet connection is there.  Nothing is
\* assumed of the other threads.
RecoveryFairness ==
    /\ WF_vars(PoolOnly /\ \E i \in Clients : CheckStaleClosed(i))
    /\ \A th \in Threads : WF_vars(PoolOnly /\ ReconnectStep(th))

RecoverySpec == RecoveryStart /\ [][RecoveryNext]_vars /\ RecoveryFairness

RaceStart ==
    /\ RaceInit
    /\ BatchInit
    /\ PoolInit
    /\ BetInit /\ channel_points = 0 /\ minimum_points = NoMinimum
    /\ GqlInit /\ strategy_attempts = 0
    /\ ResInit
    /\ AmtIdle
    /\ WatchIdle
    /\ ConcIdle
    /\ DropInit
    /\ NotifInit
    /\ SkipIdle
    /\ EventInit
    /\ OrderIdle
    /\ ExitInit
    /\ LimitInit
    /\ LockIdle

RaceNext ==
    \/ RaceOnly /\ SubscribeLock
    \/ RaceOnly /\ SubscribeTest
    \/ RaceOnly /\ \E ok \in BOOLEAN : SubscribeNow(ok)
    \/ RaceOnly /\ SubscribeAppend
    \/ RaceOnly /\ SubscribeUnlock
    \/ RaceOnly /\ AuthenticateSetsOpen
    \/ RaceOnly /\ PendingTest
    \/ RaceOnly /\ PendingLock
    \/ RaceOnly /\ \E ok \in BOOLEAN : PendingLoop(ok)

RaceSpec == RaceStart /\ [][RaceNext]_vars

LockStart ==
    /\ LockInit
    /\ BatchInit
    /\ PoolInit
    /\ BetInit /\ channel_points = 0 /\ minimum_points = NoMinimum
    /\ GqlInit /\ strategy_attempts = 0
    /\ ResInit
    /\ AmtIdle
    /\ WatchIdle
    /\ ConcIdle
    /\ DropInit
    /\ NotifInit
    /\ SkipIdle
    /\ EventInit
    /\ OrderIdle
    /\ ExitInit
    /\ LimitInit
    /\ RaceIdle

LockNext ==
    \/ LockOnly /\ \E th \in LockThreads : Acquire(th)
    \/ LockOnly /\ \E th \in LockThreads : Release(th)

LockSpec == LockStart /\ [][LockNext]_vars

(***************************************************************************)
(* Properties of the pool.                                                 *)
(***************************************************************************)
\* The clients of the list that are not Closed and hold topic t.
Holders(t) ==
    {c \in Range(clients) : cstate[c] # "Closed" /\ subscribed(c, t)}

\* The places (client of the list, position in its topics) where t occurs.
Occurrences(t) ==
    UNION {{<<i, k>> : k \in {j \in DOMAIN all_topics(clients[i]) :
                                    all_topics(clients[i])[j] = t}} :
           i \in DOMAIN clients}

\* The clients created by __reconnect(c).
Replacements(c) == {n \in Born : origin[n] = c}

\* C1: when submit(t) has returned, exactly one non-Closed client of the
\* list holds t, whatever the states of the clients were at the call.
C1_SubmitLeavesOneHolder ==
    lastSubmit # 0 => Cardinality(Holders(lastSubmit)) = 1

\* A step of __reconnect that finds its client replaced (the pool not being
\* closed) leaves the list, the clients of the list and the topics alone.
IgnoredReconnectChangesNothing ==
    \A th \in Threads :
        (/\ rpc[th] = "lock" /\ rpc'[th] = "none"
         /\ ~force_close
         /\ clients[cindex[rtarget[th]]] # rtarget[th])
        => /\ clients' = clients
           /\ nClients' = nClients
           /\ origin' = origin
           /\ pending' = pending
           /\ subs' = subs
           /\ \A i \in DOMAIN clients :
                 /\ cstate'[clients[i]] = cstate[clients[i]]
                 /\ sock'[clients[i]] = sock[clients[i]]
                 /\ ws'[clients[i]] = ws[clients[i]]

\* C2: whatever the interleaving of the reconnect requests for one client,
\* at most one replacement of it is created, at its index, and a request
\* that finds the client replaced changes nothing in the pool.
C2_ReconnectIdempotent ==
    /\ [](\A c \in Clients :
            /\ Cardinality(Replacements(c)) <= 1
            /\ \A n \in Replacements(c) : cindex[n] = cindex[c])
    /\ [][IgnoredReconnectChangesNothing]_vars

\* Client c was replaced by the health check, whose thread has not opened
\* the replacement yet, and the request of c's own on_close has returned.
C2_Witness ==
    \E c \in Born : \E n \in Replacements(c) :
        /\ ~force_close
        /\ ws[c] = "done"
        /\ ws[n] = "idle" /\ cstate[n] = "Unopened"

\* C3: a client whose state is Closed keeps that state in every step.
C3_ClosedIsTerminal ==
    [][\A c \in Clients : cstate[c] = "Closed" => cstate'[c] = "Closed"]_vars

\* C8: once end() has returned, no reconnect starts the thread of a client.
C8_NoOpenAfterEnd ==
    [][\A n \in Clients :
          (endpc = "done" /\ origin[n] # 0 /\ ws[n] = "idle") => ws'[n] = "idle"]_vars

\* C9 as stated: a client that received an authenticate error has no
\* replacement whose thread was started.
C9_NoReplacementOpened ==
    \A c \in Clients :
        proto[c] = "zerr" => \A n \in Replacements(c) : ws[n] = "idle"

\* C9, amended: a client that received an authenticate error is Closed, its
\* socket is closed and its thread never connects again.
C9_FailedClientStaysClosed ==
    \A c \in Clients :
        proto[c] = "zerr" =>
            /\ cstate[c] = "Closed"
            /\ sock[c] = "dead"
            /\ ws[c] \in {"up", "rc_e", "closing", "rc_c", "done"}

\* A client received an authenticate error and its replacement is connected.
C9_Witness ==
    \E c \in Born : \E n \in Replacements(c) :
        /\ proto[c] = "zerr"
        /\ cstate[c] = "Closed"
        /\ sock[n] = "alive"

\* C10: each topic occurs at most once, pending or subscribed, among the
\* clients of the list; a pool that was asked for one topic only, and was
\* neither disturbed nor closed, has one client.
C10_NoTopicTwice ==
    /\ \A t \in Topics : Cardinality(Occurrences(t)) <= 1
    /\ \A t \in Topics :
          (/\ faults = 0 /\ endpc = "no"
           /\ \A i \in DOMAIN clients : Range(all_topics(clients[i])) \subseteq {t})
          => Len(clients) <= 1

\* Topic t is submitted again to a pool whose only client is subscribed to
\* it: still one client with one subscription.
C10_Witness ==
    \E t \in Topics :
        /\ lastSubmit = t
        /\ nClients = 1
        /\ Len(clients) = 1
        /\ subs[clients[1]] = <<t>>
        /\ pending[clients[1]] = <<>>

\* C11: no client holds more than max_subscriptions_per_client topics,
\* pending and subscribed counted together.
C11_AtMostMaxSubs ==
    \A c \in Born : Len(all_topics(c)) <= MaxSubs

\* The first client of the list is full and a submit has just put another
\* topic on a second client.
C11_Witness ==
    /\ lastSubmit # 0
    /\ Len(clients) = 2
    /\ Len(all_topics(clients[1])) = MaxSubs
    /\ subscribed(clients[2], lastSubmit)

(***************************************************************************)
(* Properties of the event prediction manager.                             *)
(***************************************************************************)
\* C4: place_bet is called at most once for each event id, whatever the
\* deliveries of new, update and prediction_updated and the timers fired.
C4_AtMostOneBet == \A e \in EventIds : placed[e] <= 1

\* C5: exactly one timer is started for an event delivered as new with
\* seconds_until_place_bet > 0 and enough channel points; none for any
\* other event.
C5_ExactlyOneTimer ==
    \A e \in EventIds : scheduled[e] = IF eligible[e] THEN 1 ELSE 0

\* C24: a step that replaces the data of a tracked event leaves the record
\* with the prediction it carried, and no step takes a tracked event or a
\* recorded prediction away.
C24_UpdateKeepsPrediction ==
    [][\A e \in DOMAIN event_predictions :
          /\ e \in DOMAIN event_predictions'
          /\ event_predictions[e].prediction => event_predictions'[e].prediction
          /\ event_predictions'[e].data # event_predictions[e].data =>
                event_predictions'[e].prediction = event_predictions[e].prediction
          /\ \A data \in Payloads :
                Update(e, data) => event_predictions'[e].data = data]_vars

\* An update replaced the record of an event that carried a prediction, and
\* the record carries it still.
C24_Witness ==
    \E e \in DOMAIN event_predictions :
        replaced[e] /\ event_predictions[e].prediction

(***************************************************************************)
(* Properties of the GQL attempt strategy.                                 *)
(***************************************************************************)
\* Every entry of an errors array carries a message classified recoverable.
EveryMessageRecoverable(errs) ==
    \A i \in DOMAIN errs : errs[i].message \in {"service timeout"}

\* C6: a failed attempt whose exception carries an errors array is followed
\* by another attempt if and only if every message of the array is
\* recoverable (and attempts are left); otherwise it is the last attempt.
C6_RetryIffAllRecoverable ==
    \A i \in DOMAIN thrown :
        thrown[i].kind = "GQLResponseErrors" =>
            IF EveryMessageRecoverable(thrown[i].errors)
            THEN i < strategy_attempts => (calls > i \/ gpc = "loop")
            ELSE calls = i /\ gpc # "loop"

\* C7: attempt() is called at most strategy_attempts times; an operation
\* whose strategy_attempts attempts all failed ends with a RetryError, which
\* carries the exceptions of the attempts in the order they occurred.
C7_BoundedRetry ==
    /\ calls <= strategy_attempts
    /\ (Len(thrown) = strategy_attempts /\ gpc \in {"returned", "raised"})
          => gpc = "raised"
    /\ gpc = "raised" => raised = thrown

\* Three or more attempts failed, with different exceptions, and the
\* RetryError carries them all.
C7_Witness ==
    /\ gpc = "raised"
    /\ strategy_attempts >= 3
    /\ Len(raised) = strategy_attempts
    /\ raised[1] # raised[2]
    /\ \A i \in DOMAIN thrown : is_recoverable_error(thrown[i])

\* C21: an attempt that raises an InvalidJsonShapeException is the last
\* attempt, and the operation ends with a RetryError that carries the errors
\* of all the attempts made, that exception last.
C21_ShapeErrorEndsAttempts ==
    \A i \in DOMAIN thrown :
        thrown[i].kind = "InvalidJsonShapeException" =>
            /\ calls = i
            /\ gpc \in {"error", "raised"}
            /\ gpc = "raised" => (Len(raised) = i /\ raised[i] = thrown[i])

\* C21 as stated: the RetryError carries that single error.
C21_SingleError ==
    \A i \in DOMAIN thrown :
        thrown[i].kind = "InvalidJsonShapeException" =>
            /\ calls = i
            /\ gpc \in {"error", "raised"}
            /\ gpc = "raised" => raised = <<thrown[i]>>

\* The second attempt raised an InvalidJsonShapeException with attempts
\* left, and the RetryError was raised.
C21_Witness ==
    /\ gpc = "raised"
    /\ strategy_attempts = 3
    /\ Len(thrown) = 2
    /\ thrown[2].kind = "InvalidJsonShapeException"

\* C22: an operation whose attempt k succeeds after k-1 failed attempts,
\* all recoverable, has k <= strategy_attempts, an errors list of k-1
\* entries, and returns reporting attempts = k.
C22_RetryThenSuccess ==
    gpc \in {"success", "returned"} =>
        /\ calls <= strategy_attempts
        /\ Len(errors) = calls - 1
        /\ errors = thrown
        /\ \A i \in DOMAIN thrown : is_recoverable_error(thrown[i])
        /\ gpc = "returned" => reported = calls

\* Two recoverable failures, then the third attempt succeeded and the
\* operation returned.
C22_Witness ==
    /\ gpc = "returned"
    /\ calls = 3
    /\ Len(thrown) = 2

(***************************************************************************)
(* Properties of EventPredictionTracker.result (ResSpec).                  *)
(***************************************************************************)
\* C12: applying to an event the result its prediction already has leaves
\* the history of the streamer as it was after the first application.
C12_ResultIdempotent == repeat => history = history_before

(***************************************************************************)
(* Properties of create_and_place_bet (AmtSpec).                           *)
(***************************************************************************)
\* Twitch refuses a prediction of fewer points.
TwitchMinimum == 10

\* C13: place_bet is never given a Bet of fewer than 10 points.
C13_NoBetBelowMinimum == place_bet # NoBet => place_bet >= TwitchMinimum

\* C14: the amount of a created bet is the share percentage / 100 of the
\* balance rounded down, capped at max_points and, in stealth mode, at the
\* top_points of the selected outcome.
C14_AmountIsCappedShare ==
    bet # NoBet =>
        bet = LET amount == Min((balance * percentage) \div 100, max_points)
              IN IF stealth_mode THEN Min(amount, top_points) ELSE amount

C16_LoopsSurvive == running => wpc # "dead" /\ spc # "dead"

\* C17: when a pass of the watch loop is over, the handshake of every
\* streamer selected in it was started, whatever happened to the others.
C17_EverySelectedProcessed ==
    wpc = "top" => Range(streamers_watching) \subseteq started

(***************************************************************************)
(* Properties of the concurrent updates of one streamer (ConcSpec).        *)
(***************************************************************************)
\* The balance after the contribution runs alone from the balance p:
\* nothing is requested for an amount of 0, and a request that fails
\* changes nothing.
AfterContribution(p) ==
    LET a == Min(goal_left, p)
    IN {p - x : x \in {y \in {0, a} :
                          \/ y = a /\ (a = 0 \/ cres # "failed")
                          \/ y = 0 /\ (a = 0 \/ cres # "contributed")}}

\* The balances that the serial orders of the operations done so far leave:
\* the contribution after the first j messages, the other messages after it.
SerialOutcomes ==
    LET k == Len(balances)
        Before(j) == IF j = 0 THEN start_points ELSE balances[j]
    IN UNION {IF j = k THEN AfterContribution(Before(j)) ELSE {balances[k]} :
                  j \in 0..k}

\* C18: once the contribution is over, the balance of the streamer is the
\* one that some serial order of the contribution and the messages leaves.
C18_SomeSerialOrder == cpc = "done" => s_channel_points \in SerialOutcomes

(***************************************************************************)
(* Properties of Drop (DropSpec).                                          *)
(***************************************************************************)
\* C19: a drop is claimable exactly when it is not claimed and it has a
\* drop instance id.
C19_ClaimableIffUnclaimedInstance ==
    is_claimable <=> (~is_claimed /\ drop_instance_id # NoInstance)

\* The progress that a step of DropSpec was given, read from what it stored.
StepProgress ==
    [has_preconditions_met |-> has_preconditions_met' = "True",
     current_minutes_watched |-> current_minutes_watched',
     drop_instance_id |-> drop_instance_id',
     is_claimed |-> (~is_claimable' /\ is_claimed')]

\* A quarter boundary (25, 50, 75, 100) lies above old and at or below new.
CrossedQuarter(old, new) == new \div 25 > old \div 25

\* C40: an update of a drop by sync_drops marks it printable exactly when
\* its minutes watched increased and either its progress crossed a quarter
\* boundary since the previous update or the minutes went from 0 to 1.
C40_PrintableIffCrossedOrFirst ==
    [][(\E claimed \in BOOLEAN : SyncDrops(StepProgress, claimed)) =>
          (is_printable' <=>
              /\ current_minutes_watched' > current_minutes_watched
              /\ \/ CrossedQuarter(percentage_progress, percentage_progress')
                 \/ current_minutes_watched = 0 /\ current_minutes_watched' = 1)]_vars

(***************************************************************************)
(* Properties of post_gql_request_batch (BatchSpec).                       *)
(***************************************************************************)
\* The indexes of the elements of a response that parse.
ParsedElements(response) ==
    Filter([i \in DOMAIN response |-> i],
           {i \in DOMAIN response : ~ParseListRaises(response[i])})

\* C20: when the call has ended on a batched response, it has returned the
\* elements that parse and left out the others.
C20_FailedElementOmitted ==
    bpc \in {"returned", "raised"} /\ b_received =>
        bpc = "returned" /\ b_result = ParsedElements(b_response)

(***************************************************************************)
(* Properties of on_notification (NotifSpec).                              *)
(***************************************************************************)
\* C23: a notification whose (timestamp, identifier) pair is that of the
\* notification forwarded last gets no on_message call; every other
\* notification with a resolvable topic gets exactly one per listener.
C23_DuplicateDropped ==
    (n_message # NoMessage /\ n_found) =>
        \A l \in Listeners :
            n_calls[l] = IF n_message = pool_before THEN 0 ELSE 1

\* The calls of update_history made by the last handler.
Added == SubSeq(history, Len(history_before) + 1, Len(history))

\* The calls among them tagged counter = -1.
IsCorrective(call) == call.counter = -1
Corrective == SelectSeq(Added, IsCorrective)

Compares(a, where, b) ==
    CASE where = "GT" -> a > b
      [] where = "LT" -> a < b
      [] where = "GTE" -> a >= b
      [] where = "LTE" -> a <= b

\* The value the claim compares: of the event for TOTAL_USERS and
\* TOTAL_POINTS, of the chosen outcome otherwise.
ComparedValue ==
    CASE sk_filter.by = "TOTAL_USERS" -> sk_event.total_users
      [] sk_filter.by = "TOTAL_POINTS" -> sk_event.total_points
      [] sk_filter.by = "DECISION_USERS" -> sk_outcome.total_users
      [] sk_filter.by = "DECISION_POINTS" -> sk_outcome.total_points
      [] sk_filter.by = "ODDS" -> sk_outcome.odds
      [] sk_filter.by = "ODDS_PERCENTAGE" -> sk_outcome.odds_percentage
      [] sk_filter.by = "PERCENTAGE_USERS" -> sk_outcome.percentage_users
      [] sk_filter.by = "TOP_POINTS" -> sk_outcome.top_points

\* C26: with a filter_condition the bet is skipped if and only if
\* compared_value <where> value is false; without one it is never skipped.
C26_SkipIffConditionFalse ==
    sk_done =>
        IF sk_filter = NoFilter
        THEN ~sk_result.skip
        ELSE /\ sk_result.compared_value = ComparedValue
             /\ sk_result.skip <=> ~Compares(ComparedValue, sk_filter.where, sk_filter.value)

\* A GTE filter on the event's users, which differ from the outcome's: the
\* event's value equals the filter's and the bet is not skipped.
C26_Witness ==
    /\ sk_done
    /\ sk_filter # NoFilter
    /\ sk_filter.by = "TOTAL_USERS"
    /\ sk_filter.where = "GTE"
    /\ sk_event.total_users = sk_filter.value
    /\ sk_outcome.total_users < sk_event.total_users
    /\ ~sk_result.skip

(***************************************************************************)
(* Properties of EventPrediction (EventSpec).                              *)
(***************************************************************************)
\* The totals of the event are the sums over its outcomes.
TotalsAreSums ==
    /\ ep_total_points = SumPoints(ep_outcomes)
    /\ ep_total_users = SumUsers(ep_outcomes)

\* C27: an EventPrediction with at least one outcome has total_points and
\* total_users equal to the sums over its outcomes, from its construction on.
C27_TotalsAreSums ==
    (ep_made /\ Len(ep_outcomes) >= 1) => TotalsAreSums

(***************************************************************************)
(* Properties of the order of the selection (OrderSpec).                   *)
(***************************************************************************)
RECURSIVE ConcatCandidates(_)
\* The candidate lists of the priorities, one after the other.
ConcatCandidates(prio) ==
    IF prio = << >> THEN << >>
    ELSE priority_candidates(streamers, streamers_index, Head(prio))
            \o ConcatCandidates(Tail(prio))

\* The first n distinct entries of s, in their order.
FirstDistinct(s, n) ==
    LET firsts == {i \in DOMAIN s : \A j \in 1..(i - 1) : s[j] # s[i]}
        Nth(k) == CHOOSE i \in firsts : Cardinality({j \in firsts : j < i}) = k - 1
    IN [k \in 1..Min(Cardinality(firsts), n) |-> s[Nth(k)]]

\* C28: the selection is the first 2 distinct streamers of the candidate
\* lists of the priorities, concatenated in the configured priority order.
C28_SelectionFollowsPriorityOrder ==
    selected => streamers_watching = FirstDistinct(ConcatCandidates(priority), 2)

\* STREAK, SUBSCRIBED, POINTS_ASCENDING over three streamers of which the
\* last configured has the fewest points, a multiplier and a missing streak:
\* it is selected first, the next by points second.
C28_Witness ==
    /\ selected
    /\ priority = <<"STREAK", "SUBSCRIBED", "POINTS_ASCENDING">>
    /\ \A i \in Streamers : streamers[i].streak <=> i = NumStreamers
    /\ \A i \in Streamers : streamers[i].multiplier > 0 <=> i = NumStreamers
    /\ streamers[NumStreamers].channel_points = 0
    /\ streamers[1].channel_points > streamers[2].channel_points
    /\ streamers_watching = <<NumStreamers, 2>>

(***************************************************************************)
(* Properties of the bet timers at shutdown (TimerSpec).                   *)
(***************************************************************************)
\* C29: once running is false no bet timer fires: the calls of
\* create_and_place_bet made by timers do not go on.
C29_NoTimerFiresAfterShutdown ==
    [][~running =>
          \A e \in EventIds :
              \A found \in BOOLEAN, should_skip \in BOOLEAN :
                  ~TimerFires(e, found, should_skip)]_vars

(***************************************************************************)
(* Properties of the end of the loops.                                     *)
(***************************************************************************)
\* C30: once running is false, the watch loop and the sync loop each
\* eventually end, wherever they were: at the test of the while, in a pass,
\* in a sleep, or waiting for the Internet connection.
C30_LoopsReturnAfterStop == ~running ~> LoopsReturned

(***************************************************************************)
(* Properties of the topics of the pool (PoolSpec).                        *)
(***************************************************************************)
\* Topic t is pending or subscribed on a client of the pool's list.
Held(t) == \E i \in DOMAIN clients : t \in Range(all_topics(clients[i]))

\* C31: until end() is called no topic is lost: the topic of a submit call
\* that has just returned is held by a client of the list, and a topic held
\* by a client of the list is still held by one after every step.
C31_NoTopicLost ==
    [][endpc' = "no" =>
          /\ \A t \in Topics : lastSubmit' = t => Held(t)'
          /\ \A t \in Topics : Held(t) => Held(t)']_vars

\* The pending topics of c from the k-th on.
PendingFrom(c, k) == SubSeq(pending[c], k, Len(pending[c]))

\* C32: a client entering Open sends its pending topics in the order they
\* were queued, and a topic whose subscribe attempt fails stays pending, at
\* the head of the queue: after the flush the topics before the first
\* failure are subscribed, in the order of the queue, and the others are the
\* pending list.
C32_FlushInOrderFailureKept ==
    [][\A c \in Clients :
          (OnAuthenticateOk(c) \/ OnAuthenticateOkLate(c)) =>
              \E k \in 1..(Len(pending[c]) + 1) :
                  /\ subs'[c] = subs[c] \o SubSeq(pending[c], 1, k - 1)
                  /\ pending'[c] = PendingFrom(c, k)]_vars

\* C33: a step that replaces the client at an index of the list installs
\* there a client made for that index whose pending list is the subscribed
\* topics of the old client followed by its pending ones and which has no
\* subscription yet; the list keeps its length and its other entries, and
\* the topics of every other client are unchanged.
C33_ReconnectHandsOverTopics ==
    [][\A i \in DOMAIN clients :
          (i \in DOMAIN clients' /\ clients'[i] # clients[i]) =>
              LET c == clients[i]
                  n == clients'[i]
              IN  /\ cindex[c] = i /\ cindex'[n] = i
                  /\ pending'[n] = subs[c] \o pending[c]
                  /\ subs'[n] = << >>
                  /\ Len(clients') = Len(clients)
                  /\ \A j \in DOMAIN clients : j # i => clients'[j] = clients[j]
                  /\ \A d \in Clients \ {n} :
                        pending'[d] = pending[d] /\ subs'[d] = subs[d]]_vars

\* A replacement installed in the list holds the topics of a client that had
\* subscribed to at least one.
C33_Witness ==
    \E n \in Born :
        /\ origin[n] # 0
        /\ subs[origin[n]] # << >>
        /\ pending[n] = subs[origin[n]] \o pending[origin[n]]
        /\ n \in Range(clients)

(***************************************************************************)
(* Properties of the recovery of a closed client (RecoverySpec).           *)
(***************************************************************************)
\* Client c is at its index of the pool's list.
Installed(c) == cindex[c] \in DOMAIN clients /\ clients[cindex[c]] = c

\* A thread inside __reconnect calls open() on the replacement of c, made
\* for the index of c.
OpenCalledOnReplacement(c) ==
    \E th \in Threads :
        /\ rpc[th] = "chk"
        /\ origin[rnew[th]] = c
        /\ cindex[rnew[th]] = cindex[c]

\* C34: when a client of the list is Closed and the pool is not shutting
\* down, then eventually open() is called on a replacement made for its
\* index, unless the pool is shut down in between (the health check keeps
\* running, the Internet is reachable; one more client can be constructed).
C34_RecoveryIsEventual ==
    \A c \in Clients :
        (Installed(c) /\ cstate[c] = "Closed" /\ ~force_close
         /\ nClients < MaxClients)
            ~> (force_close \/ OpenCalledOnReplacement(c))


\* The health check has replaced a closed client and calls open() on the
\* replacement while the pool is not shut down.
C34_Witness ==
    \E c \in Born :
        /\ cstate[c] = "Closed"
        /\ ~force_close
        /\ rpc[Health] = "chk"
        /\ origin[rnew[Health]] = c
        /\ OpenCalledOnReplacement(c)

(***************************************************************************)
(* Properties of the lifecycle of a client (PoolSpec).                     *)
(***************************************************************************)
\* C35: a client enters Open only from Unauthenticated and enters
\* Unauthenticated only from Unwelcomed: a welcome or an authenticate
\* response handled in any other state does not move the client there.
C35_LifecycleOrder ==
    [][\A c \in Clients :
          /\ (cstate'[c] = "Open" /\ cstate[c] # "Open") =>
                 cstate[c] = "Unauthenticated"
          /\ (cstate'[c] = "Unauthenticated" /\ cstate[c] # "Unauthenticated") =>
                 cstate[c] = "Unwelcomed"]_vars

(***************************************************************************)
(* Properties of the notifications of two clients (NotifSpec).             *)
(***************************************************************************)
\* Client c has forwarded the event with this timestamp and identifier: the
\* pair is recorded on the client when, and only when, it forwards.
HasForwarded(c, timestamp, identifier) ==
    /\ last_message_timestamp[c] = timestamp
    /\ last_message_identifier[c] = identifier

\* C36: an event, identified by its (timestamp, identifier), that arrives
\* over two different clients of the pool is forwarded to the listeners
\* once: no two clients have both forwarded the same event.
C36_ForwardedOnceAcrossClients ==
    \A c, d \in Clients :
        (c # d /\ last_message_timestamp[c] # NoTimestamp) =>
            ~HasForwarded(d, last_message_timestamp[c], last_message_identifier[c])

(***************************************************************************)
(* Properties of subscribe racing with the transition to Open (RaceSpec).  *)
(***************************************************************************)
\* C37: under every interleaving of subscribe(topic) with on_authenticate,
\* the topic is not stranded: when both have returned and the client is
\* Open, the topic is subscribed and not left in pending_topics; subscribe
\* gave it to subscribe_now at once, or queued it and the flush that took
\* the lock afterwards sent it.
C37_TopicNeverStranded ==
    (r_spc = "done" /\ r_wpc = "done" /\ r_state = "Open") =>
        /\ r_topic \notin Range(r_pending)
        /\ r_topic \in Range(r_subscriptions)
        /\ r_path \in {"now", "queued"}

\* subscribe found the client not yet Open and queued the topic, and the
\* flush that followed the transition sent it.
C37_Witness ==
    /\ r_spc = "done" /\ r_wpc = "done"
    /\ r_path = "queued"
    /\ r_state = "Open"
    /\ r_topic \in Range(r_subscriptions)


(***************************************************************************)
(* Properties of the locks.                                                *)
(***************************************************************************)
Holds(th, l) == lk_holder[l] = th
AtAcquire(th) == Running(th) /\ NextOp(th).op = "acquire"
Wanted(th) == NextOp(th).lock
WaitsFor(a, b) == AtAcquire(a) /\ lk_holder[Wanted(a)] = b

\* the pool lock comes first, a client's locks second
LockRank(l) == IF l = PoolLock THEN 1 ELSE 2

\* C38: the calls of the pool and of the clients never deadlock: no thread
\* asks for a lock it holds, a thread that asks for a lock holds only locks
\* of a lower rank (the pool lock before a client's pending_topics_lock or
\* close_lock, and never two client locks together), no threads wait for
\* each other in a cycle, and while a call is unfinished some thread can
\* take a step.
C38_NoDeadlock ==
    /\ \A th \in LockThreads : ~WaitsFor(th, th)
    /\ \A th \in LockThreads : \A l \in Locks :
           (AtAcquire(th) /\ Holds(th, l)) => LockRank(l) < LockRank(Wanted(th))
    /\ \A a, b \in LockThreads : ~(WaitsFor(a, b) /\ WaitsFor(b, a))
    /\ \A a, b, c \in LockThreads :
           ~(WaitsFor(a, b) /\ WaitsFor(b, c) /\ WaitsFor(c, a))
    /\ (\E th \in LockThreads : Running(th)) =>
           \E th \in LockThreads :
               Running(th) /\ (AtAcquire(th) => lk_holder[Wanted(th)] = 0)

\* a caller in submit holds the pool lock and waits for a client's
\* pending_topics_lock, which that client's thread holds for its flush,
\* while a third thread waits for the pool lock
C38_Witness ==
    \E a, b, c \in LockThreads : \E cl \in LockClients :
        /\ a # b /\ b # c /\ a # c
        /\ Holds(a, PoolLock)
        /\ WaitsFor(a, b)
        /\ Wanted(a) = PendingTopicsLock(cl)
        /\ lk_prog[b] = SubscribePendingLocks(cl)
        /\ WaitsFor(c, a)


\* C39: every pass of the watch loop sleeps before the next pass begins:
\* whenever the loop comes back to its `while self.running` test, it has
\* called __chuncked_sleep since the pass began.
C39_PassSleeps ==
    [][(loop_at["watch"] # "top" /\ loop_at'["watch"] = "top") => loop_slept']_vars

====
